---------------------------- MODULE Spec2Model ----------------------------
(***************************************************************************)
(* A model of the shared-memory RPC runtime: the SPSC RingBuffer, the      *)
(* frame codec, Client (call / notify / receiverLoop / connect /           *)
(* disconnect) and Service (acceptLoop / connectionLoop / notify / stop).  *)
(*                                                                         *)
(* Rings are modelled at byte level: a frame is the 24-byte little-endian  *)
(* header followed by payloadBytes bytes, exactly as the code lays it out. *)
(* Threads are modelled by a program counter per thread; one action is one *)
(* step of one thread between two accesses to shared state.                *)
(***************************************************************************)
EXTENDS Integers, Sequences, FiniteSets, TLC

(***************************************************************************)
(* Program constants                                                       *)
(***************************************************************************)
RPC_SUCCESS == 0
RPC_ERR_DISCONNECTED == -1
RPC_ERR_TIMEOUT == -2
RPC_ERR_INVALID_METHOD == -4
RPC_ERR_RING_FULL == -6
RPC_ERR_STOPPED == -7

FRAME_REQUEST == 1
FRAME_RESPONSE == 2
FRAME_NOTIFY == 4

PROTOCOL_VERSION == 1

\* sizeof(FrameHeader)
HeaderBytes == 24

(***************************************************************************)
(* Bounds of the model                                                     *)
(***************************************************************************)
\* the unit-test ring (RingBuffer<kTestSize>) is scaled to 2^RingTestBits bytes
RingTestBits == 2
\* the producer of the unit-test ring hands over at most MaxWritten bytes in all
MaxWritten == 6
\* longest single write / read / skip of the unit-test ring
MaxLen == 3

RSize == 2 ^ RingTestBits

\* RING_BUFFER_SIZE (256 KB per direction) is scaled to 2^RingBits bytes
RingBits == 6
\* threads that invoke Client::call on client 1
NCallers == 2
\* calls one client makes in all (m_nextSeq stays <= MaxCalls + 1)
MaxCalls == 2
\* clients that may connect to the service
NClients == 2
\* how often Service::stop is called
MaxStops == 2
\* how often connect and disconnect are called on one client
MaxConnects == 2
MaxDisconnects == 2
\* run loop: calls of run(), threads that post and stop, callables posted in
\* all, calls of stop() from those threads, bytes sent to the registered fd
MaxRuns == 2
NPosters == 2
MaxPosts == 3
MaxLoopStops == 2
MaxFdBytes == 1
\* calls of removeFd from the other threads
MaxRemoves == 2
\* threads that call Service::notify, and the calls each of them makes
NNotifiers == 2
MaxNotifies == 2
\* calls made by the one caller of the drain scenario
MaxDrainCalls == 3

RingSize == 2 ^ RingBits
Callers == 1..NCallers
Clients == 1..NClients
Notifiers == 1..NNotifiers

(***************************************************************************)
(* 32-bit unsigned values.  The model checker's integers are 32-bit signed, *)
(* so a uint32_t is carried by the signed integer with the same bit        *)
(* pattern (0xFFFFFFFE is -2).  Addition and subtraction modulo 2^32 are   *)
(* then plain + and - (no run of the model comes near 2^31), x & (Size-1)  *)
(* is x % Size, and only the unsigned comparison needs care.               *)
(***************************************************************************)
\* a < b, both unsigned 32-bit
ULt(a, b) == IF (a < 0) = (b < 0) THEN a < b ELSE b < 0

Min(a, b) == IF a < b THEN a ELSE b

(***************************************************************************)
(* RingBuffer<Size>: pure parts of write / read / peek / skip.             *)
(* A ring is a record [head, tail, data], data the sequence of its bytes.   *)
(***************************************************************************)
\* a free-space computation that is one byte too generous
MutFreeBytes(size, head, tail) == size - (head - tail) + 1

\* Size - (head - tail)
FreeBytes(size, head, tail) == size - (head - tail)

\* head - tail
UsedBytes(head, tail) == head - tail

\* the space check of write: false means "return false"
MutWriteFits(size, head, tail, len) == ~ULt(FreeBytes(size, head, tail) + 1, len)
WriteFits(size, head, tail, len) == ~ULt(FreeBytes(size, head, tail), len)

\* a data check that lets one byte too many through
MutReadFits(head, tail, len) == ~ULt(UsedBytes(head, tail) + 1, len)

\* the data check of read / peek / skip
ReadFits(head, tail, len) == ~ULt(UsedBytes(head, tail), len)

\* a masking that takes the counter for a signed value
MutMask(size, counter) == IF counter < 0 THEN (0 - counter) % size ELSE counter % size

\* offset = counter & (Size - 1), Size a power of two
Mask(size, counter) == counter % size

\* firstChunk = Size - offset, capped by len
FirstChunk(size, offset, len) == Min(size - offset, len)

\* memcpy(data_ + at, src + from, n); data_[k] is held at data[k + 1]
CopyIn(data, at, src, from, n) ==
    SubSeq(data, 1, at) \o SubSeq(src, from + 1, from + n)
                        \o SubSeq(data, at + n + 1, Len(data))

\* memcpy(dest + from, data_ + at, n): dest is a sequence of length >= from + n
CopyOut(dest, from, data, at, n) ==
    SubSeq(dest, 1, from) \o SubSeq(data, at + 1, at + n)
                          \o SubSeq(dest, from + n + 1, Len(dest))

\* both memcpys of write, done at the offset of `head`
WriteData(size, data, head, src) ==
    LET len == Len(src)
        offset == Mask(size, head)
        first == FirstChunk(size, offset, len)
    IN  CopyIn(CopyIn(data, offset, src, 0, first), 0, src, first, len - first)

\* both memcpys of read / peek, done at the offset of `tail`
ReadData(size, data, tail, len) ==
    LET offset == Mask(size, tail)
        first == FirstChunk(size, offset, len)
        blank == [k \in 1..len |-> 0]
    IN  CopyOut(CopyOut(blank, 0, data, offset, first), first, data, 0, len - first)

\* reset(): head and tail zeroed (the data array is left as it is)
reset(r) == [r EXCEPT !.head = 0, !.tail = 0]

\* readAvailable() and writeAvailable()
readAvailable(r) == UsedBytes(r.head, r.tail)
writeAvailable(size, r) == FreeBytes(size, r.head, r.tail)


(***************************************************************************)
(* Frame codec.  A FrameHeader is a record of its seven fields; on the     *)
(* wire it is 24 bytes, every field little-endian (htole16 / htole32).     *)
(***************************************************************************)
Byte(x, k) == (x \div (256 ^ k)) % 256

\* big-endian in place of little-endian
MutBytes16(x) == <<Byte(x, 1), Byte(x, 0)>>

\* htole16(x) / htole32(x) stored to memory: the bytes, lowest first
Bytes16(x) == <<Byte(x, 0), Byte(x, 1)>>
Bytes32(x) == <<Byte(x, 0), Byte(x, 1), Byte(x, 2), Byte(x, 3)>>

\* le16toh / le32toh of the bytes at b[at+1 ..]; a 32-bit value whose top bit
\* is set comes out as the negative integer with that bit pattern
Value16(b, at) == b[at + 1] + 256 * b[at + 2]
Value32(b, at) ==
    b[at + 1] + 256 * b[at + 2] + 65536 * b[at + 3]
      + 16777216 * (IF b[at + 4] >= 128 THEN b[at + 4] - 256 ELSE b[at + 4])

FrameHeader(version, flags, serviceId, messageId, seq, payloadBytes, aux) ==
    [version |-> version, flags |-> flags, serviceId |-> serviceId,
     messageId |-> messageId, seq |-> seq, payloadBytes |-> payloadBytes,
     aux |-> aux]

encodeFrameHeader(h) ==
    Bytes16(h.version) \o Bytes16(h.flags) \o Bytes32(h.serviceId)
      \o Bytes32(h.messageId) \o Bytes32(h.seq) \o Bytes32(h.payloadBytes)
      \o Bytes32(h.aux)

\* the header read out of (at least) 24 bytes
HeaderOfBytes(b) ==
    FrameHeader(Value16(b, 0), Value16(b, 2), Value32(b, 4), Value32(b, 8),
                Value32(b, 12), Value32(b, 16), Value32(b, 20))

\* decodeFrameHeader(bytes, len, &out): [ok, header]
NoHeader == FrameHeader(0, 0, 0, 0, 0, 0, 0)
decodeFrameHeader(b, len) ==
    IF len < HeaderBytes THEN [ok |-> FALSE, header |-> NoHeader]
    ELSE [ok |-> TRUE, header |-> HeaderOfBytes(b)]

\* flags & FRAME_xxx, for the single-bit masks 1, 2, 4
HasFlag(flags, bit) == (flags \div bit) % 2 = 1

\* toBytes(uint32_t) and fromBytes(bytes) of the tests: memcpy of a uint32_t
\* on the little-endian host (fromBytes of fewer than 4 bytes takes the
\* missing ones as 0)
toBytes(v) == Bytes32(v)
fromBytes(b) == Value32([k \in 1..4 |-> IF k <= Len(b) THEN b[k] ELSE 0], 0)

\* the request handler the tests install: add one for messageId 7
EchoMethod == 7
Handler(messageId, request) ==
    IF messageId # EchoMethod
    THEN [status |-> RPC_ERR_INVALID_METHOD, response |-> << >>]
    ELSE [status |-> RPC_SUCCESS, response |-> toBytes(fromBytes(request) + 1)]

(***************************************************************************)
(* State                                                                   *)
(***************************************************************************)
VARIABLES
    \* --- one RingBuffer with one producer and one consumer thread ---
    ring,       \* the RingBuffer under test: [head, tail, data]
    prod,       \* producer thread: position in write() and its locals
    cons,       \* consumer thread: position in read()/peek()/skip() and locals
    written,    \* history: bytes handed to writes that returned true
    got,        \* history: bytes consumed so far (-1 marks a skipped byte)
    \* --- client / service; functions of the client (= connection) id ---
    workload,   \* which requests and timeouts the callers use
    c2s,        \* SharedRegion::clientToServer of each client
    s2c,        \* SharedRegion::serverToClient of each client
    sock,       \* control socket pair of each client
    cli,        \* Client fields: m_running, m_socketFd, m_shmFd, m_region, m_nextSeq
    mpending,   \* keys of Client::m_pending
    rcv,        \* position of Client::receiverLoop
    notified,   \* history: invocations of the client's notify handler
    call,       \* per caller thread: position in Client::call and its locals
    srv,        \* Service fields: m_running, m_listenFd, m_handler
    wrk,        \* per connection: position in Service::connectionLoop, locals
    \* --- connection set-up and teardown ---
    backlog,    \* listen socket: the clients connected and not yet accepted
    con,        \* per client: position in Client::connect and its result
    acc,        \* position of Service::acceptLoop and its locals
    conn,       \* per client: the server's fds and mapping for that peer
    conns,      \* Service::m_connections, as the sequence of client ids
    mutex,      \* holder of Service::m_connectionsMutex ("free" if none)
    ntf,        \* the thread in Service::notify: position and locals
    stp,        \* the thread in Service::stop: position and locals
    dsc,        \* per client: position of the thread in Client::disconnect
    hist,       \* history: order of the requests written, handled, answered
    fds,        \* history: the fds each owner holds open, the calls of connect
                \* and disconnect, and whether a closed fd was closed again
    \* --- the frame codec on its own ---
    codec,      \* a header, its encoding and what decodeFrameHeader made of it
    \* --- RunLoop / EventDispatcher ---
    loop,       \* m_running, m_stopRequested, m_postQueue, the wakeup pipe and
                \* the registered fd
    run,        \* the thread in run(): position and locals
    ext,        \* the other threads: position in post / stop
    trace       \* history: order of the completed posting calls, of the
                \* callables started and finished; runs owed a stop

ringVars == <<ring, prod, cons, written, got>>
shmVars == <<c2s, s2c>>
cliVars == <<cli, mpending, rcv, notified, call>>
srvVars == <<srv, wrk>>
lifeVars == <<backlog, con, acc, conn, conns, mutex, ntf, stp>>
rpcVars == <<workload, shmVars, sock, cliVars, srvVars, lifeVars, dsc, hist, fds>>

\* the state of the pieces exercised on their own
loopVars == <<loop, run, ext, trace>>
unitVars == <<codec, loopVars>>

vars == <<ringVars, rpcVars, unitVars>>

(***************************************************************************)
(* RingBuffer under one producer and one consumer, one action per load,    *)
(* memcpy and store of write() and of read() / peek() / skip().            *)
(***************************************************************************)
\* head and tail only ever grow modulo 2^32: a fresh ring, and one that has
\* already carried 2^32 - 2 bytes (head = tail = 0xFFFFFFFE)
StartCounters == {0, -2}

ProdIdle == [pc |-> "idle", head |-> 0, tail |-> 0, src |-> << >>, ok |-> FALSE]
ConsIdle == [pc |-> "idle", op |-> "read", head |-> 0, tail |-> 0, len |-> 0,
             dest |-> << >>, ok |-> FALSE, peeked |-> << >>]

\* the client / service variables are not used by the ring-only specification
LoopUnused == loop = << >> /\ run = << >> /\ ext = << >> /\ trace = << >>
UnitUnused == codec = << >> /\ LoopUnused

RpcUnused ==
    /\ workload = "none"
    /\ c2s = << >> /\ s2c = << >> /\ sock = << >>
    /\ cli = << >> /\ mpending = << >> /\ rcv = << >> /\ notified = << >>
    /\ call = << >> /\ srv = << >> /\ wrk = << >>
    /\ backlog = << >> /\ con = << >> /\ acc = << >> /\ conn = << >>
    /\ conns = << >> /\ mutex = "free" /\ ntf = << >> /\ stp = << >>
    /\ dsc = << >> /\ hist = << >> /\ fds = << >>

InitRing ==
    /\ RpcUnused
    /\ UnitUnused
    /\ \E h0 \in StartCounters :
          ring = [head |-> h0, tail |-> h0, data |-> [i \in 1..RSize |-> 0]]
    /\ prod = ProdIdle
    /\ cons = ConsIdle
    /\ written = << >>
    /\ got = << >>

\* write(): uint32_t head = ctrl_.head.load(relaxed)
WriteLoadHead ==
    /\ prod.pc = "idle"
    /\ \E len \in 1..MaxLen :
          /\ Len(written) + len <= MaxWritten
          /\ prod' = [pc |-> "loadTail", head |-> ring.head, tail |-> 0,
                      src |-> [k \in 1..len |-> Len(written) + k], ok |-> FALSE]
    /\ UNCHANGED <<ring, cons, written, got, rpcVars, unitVars>>

\* write(): tail = ctrl_.tail.load(acquire); if (Size - (head - tail) < len) return false
WriteLoadTail ==
    /\ prod.pc = "loadTail"
    /\ prod' = IF WriteFits(RSize, prod.head, ring.tail, Len(prod.src))
               THEN [prod EXCEPT !.pc = "copy1", !.tail = ring.tail]
               ELSE [prod EXCEPT !.pc = "idle", !.head = 0, !.ok = FALSE]
    /\ UNCHANGED <<ring, cons, written, got, rpcVars, unitVars>>

\* write(): the first (or only) memcpy
WriteCopy1 ==
    /\ prod.pc = "copy1"
    /\ LET len == Len(prod.src)
           offset == Mask(RSize, prod.head)
           first == FirstChunk(RSize, offset, len)
       IN  /\ ring' = [ring EXCEPT !.data = CopyIn(@, offset, prod.src, 0, first)]
           /\ prod' = [prod EXCEPT !.pc = IF first < len THEN "copy2" ELSE "store"]
    /\ UNCHANGED <<cons, written, got, rpcVars, unitVars>>

\* write(): the second memcpy of a write that wraps
WriteCopy2 ==
    /\ prod.pc = "copy2"
    /\ LET len == Len(prod.src)
           first == FirstChunk(RSize, Mask(RSize, prod.head), len)
       IN  ring' = [ring EXCEPT !.data = CopyIn(@, 0, prod.src, first, len - first)]
    /\ prod' = [prod EXCEPT !.pc = "store"]
    /\ UNCHANGED <<cons, written, got, rpcVars, unitVars>>

\* write(): ctrl_.head.store(head + len, release); return true
WriteStore ==
    /\ prod.pc = "store"
    /\ ring' = [ring EXCEPT !.head = prod.head + Len(prod.src)]
    /\ written' = written \o prod.src
    /\ prod' = [prod EXCEPT !.pc = "idle", !.head = 0, !.tail = 0, !.ok = TRUE]
    /\ UNCHANGED <<cons, got, rpcVars, unitVars>>

\* read() / peek() / skip(): uint32_t head = ctrl_.head.load(acquire)
\* (peeked: the bytes of the peek that has just returned true, if any)
ReadLoadHead ==
    /\ cons.pc = "idle"
    /\ \E op \in {"read", "peek", "skip"}, len \in 1..MaxLen :
          cons' = [pc |-> "loadTail", op |-> op, head |-> ring.head, tail |-> 0,
                   len |-> len, dest |-> [k \in 1..len |-> 0], ok |-> FALSE,
                   peeked |-> IF cons.op = "peek" /\ cons.ok THEN cons.dest
                              ELSE << >>]
    /\ UNCHANGED <<ring, prod, written, got, rpcVars, unitVars>>

\* tail = ctrl_.tail.load(relaxed); if (head - tail < len) return false
ReadLoadTail ==
    /\ cons.pc = "loadTail"
    /\ cons' = IF ReadFits(cons.head, ring.tail, cons.len)
               THEN [cons EXCEPT !.pc = IF cons.op = "skip" THEN "store" ELSE "copy1",
                                 !.tail = ring.tail]
               ELSE [cons EXCEPT !.pc = "idle", !.head = 0, !.ok = FALSE]
    /\ UNCHANGED <<ring, prod, written, got, rpcVars, unitVars>>

\* read() / peek(): the first (or only) memcpy
ReadCopy1 ==
    /\ cons.pc = "copy1"
    /\ LET offset == Mask(RSize, cons.tail)
           first == FirstChunk(RSize, offset, cons.len)
       IN  cons' = [cons EXCEPT
                      !.dest = CopyOut(@, 0, ring.data, offset, first),
                      !.pc = IF first < cons.len THEN "copy2"
                             ELSE IF cons.op = "peek" THEN "idle" ELSE "store",
                      !.ok = (first = cons.len /\ cons.op = "peek")]
    /\ UNCHANGED <<ring, prod, written, got, rpcVars, unitVars>>

\* read() / peek(): the second memcpy of a read that wraps
ReadCopy2 ==
    /\ cons.pc = "copy2"
    /\ LET first == FirstChunk(RSize, Mask(RSize, cons.tail), cons.len)
       IN  cons' = [cons EXCEPT
                      !.dest = CopyOut(@, first, ring.data, 0, cons.len - first),
                      !.pc = IF cons.op = "peek" THEN "idle" ELSE "store",
                      !.ok = (cons.op = "peek")]
    /\ UNCHANGED <<ring, prod, written, got, rpcVars, unitVars>>

\* read() / skip(): ctrl_.tail.store(tail + len, release); return true
ReadStore ==
    /\ cons.pc = "store"
    /\ ring' = [ring EXCEPT !.tail = cons.tail + cons.len]
    /\ got' = got \o (IF cons.op = "skip" THEN [k \in 1..cons.len |-> -1] ELSE cons.dest)
    /\ cons' = [cons EXCEPT !.pc = "idle", !.head = 0, !.tail = 0, !.ok = TRUE]
    /\ UNCHANGED <<prod, written, rpcVars, unitVars>>

NextRing ==
    \/ WriteLoadHead
    \/ WriteLoadTail
    \/ WriteCopy1
    \/ WriteCopy2
    \/ WriteStore
    \/ ReadLoadHead
    \/ ReadLoadTail
    \/ ReadCopy1
    \/ ReadCopy2
    \/ ReadStore

SpecRing == InitRing /\ [][NextRing]_vars

(***************************************************************************)
(* Client and Service: initial values                                      *)
(***************************************************************************)
EmptyRing == [head |-> 0, tail |-> 0, data |-> [i \in 1..RingSize |-> 0]]

\* a control socket pair: the version of the handshake message queued towards
\* the server (0: none), the one-byte messages queued towards each side, and
\* whether the connection has been shut down (shutdown(SHUT_RDWR) or close by
\* a side)
NoSock == [state |-> "none", hello |-> 0, toSrv |-> << >>, toCli |-> << >>,
           shut |-> FALSE]
OpenSock == [NoSock EXCEPT !.state = "connected"]

\* Client(): m_socketFd{-1}, m_shmFd{-1}, m_region{nullptr}, m_running{false},
\* m_nextSeq{1}; the fd and pointer fields are modelled by "is set"
NewClient == [running |-> FALSE, socketFd |-> FALSE, shmFd |-> FALSE,
              region |-> FALSE, nextSeq |-> 1]
ConnectedClient == [running |-> TRUE, socketFd |-> TRUE, shmFd |-> TRUE,
                    region |-> TRUE, nextSeq |-> 1]

\* a thread not inside Client::call; encoded is its local of that name; done /
\* status / response are the fields of the PendingCall object it holds
CallIdle == [pc |-> "idle", n |-> 0, seq |-> 0, method |-> 0, req |-> << >>,
             encoded |-> << >>,
             tmo |-> "long", head |-> 0, ret |-> RPC_SUCCESS, resp |-> << >>,
             done |-> FALSE, status |-> RPC_SUCCESS, response |-> << >>]

\* the server's side of a peer: nothing open (after closeConnection), and
\* everything open (a Connection as acceptLoop builds it)
NoConn == [socketFd |-> FALSE, shmFd |-> FALSE, region |-> FALSE]
OpenConn == [socketFd |-> TRUE, shmFd |-> TRUE, region |-> TRUE]

\* Client::connect not yet called, and returned true
ConIdle == [pc |-> "idle", ret |-> FALSE, version |-> 0]
ConDone == [pc |-> "done", ret |-> TRUE, version |-> PROTOCOL_VERSION]

\* Service::acceptLoop at its loop condition, no peer in hand
AccLoopTop == [pc |-> "loop", peer |-> 0, version |-> 0]

\* no thread in Service::notify / Service::stop
NtfIdle == [pc |-> "idle", at |-> 0, head |-> 0, ret |-> RPC_SUCCESS, n |-> 0,
            id |-> 0, clients |-> {}, list |-> << >>, live |-> {}, sent |-> << >>]
StpIdle == [pc |-> "idle", at |-> 0, n |-> 0]

\* a connection worker that has not been started
WrkOff == [pc |-> "off", hdr |-> NoHeader, payload |-> << >>,
           status |-> RPC_SUCCESS, response |-> << >>, encoded |-> << >>,
           head |-> 0]

\* no thread is in Client::disconnect
DscIdle == [c \in Clients |-> [pc |-> "idle", waiting |-> {}, calm |-> TRUE]]

\* the fds held open when the service has started and the clients in the set
\* connected have completed connect(): per client its control socket
\* (cliSock) and shm fd (cliShm), per connection the accepted socket (srvSock)
\* and the received shm fd (srvShm), and the listen socket
FdsWith(connected) ==
    [cliSock |-> [c \in Clients |-> IF c \in connected THEN 1 ELSE 0],
     cliShm |-> [c \in Clients |-> IF c \in connected THEN 1 ELSE 0],
     srvSock |-> [c \in Clients |-> IF c \in connected THEN 1 ELSE 0],
     srvShm |-> [c \in Clients |-> IF c \in connected THEN 1 ELSE 0],
     listen |-> 1,
     twice |-> FALSE,
     connects |-> [c \in Clients |-> IF c \in connected THEN 1 ELSE 0],
     disconnects |-> [c \in Clients |-> 0]]

\* an fd of the kind has been opened (or received) for client c
Opened(f, kind, c) == [f EXCEPT ![kind][c] = @ + 1]

\* close(fd): one fd fewer of the kind is open; closing with none open closes
\* an fd that was closed before
Closed(f, kind, c) ==
    IF f[kind][c] = 0 THEN [f EXCEPT !.twice = TRUE]
    ELSE [f EXCEPT ![kind][c] = @ - 1]

\* if (fd >= 0) { close(fd); fd = -1; }
CloseIf(held, f, kind, c) == IF held THEN Closed(f, kind, c) ELSE f

\* nothing written, handled or answered yet: the seq of the requests whose
\* frame Client::call has written, of those handed to the request handler,
\* and of those whose RESPONSE frame the worker has written, each in order,
\* and what the handler step made of each request (seq, status, response)
NoHistory == [written |-> << >>, handled |-> << >>, answered |-> << >>,
              out |-> << >>]

\* the state in which client 1 has connected (handshake done, receiver and
\* connection worker started, acceptor back in accept4) and the other
\* clients have not
InitConnected ==
    /\ c2s = [c \in Clients |-> EmptyRing]
    /\ s2c = [c \in Clients |-> EmptyRing]
    /\ sock = [c \in Clients |-> IF c = 1 THEN OpenSock ELSE NoSock]
    /\ cli = [c \in Clients |-> IF c = 1 THEN ConnectedClient ELSE NewClient]
    /\ mpending = [c \in Clients |-> {}]
    /\ rcv = [c \in Clients |-> IF c = 1 THEN "loop" ELSE "off"]
    /\ notified = [c \in Clients |-> << >>]
    /\ call = [t \in Callers |-> CallIdle]
    /\ srv = [running |-> TRUE, listenFd |-> TRUE, handler |-> workload # "nohandler"]
    /\ wrk = [c \in Clients |-> IF c = 1 THEN [WrkOff EXCEPT !.pc = "loop"] ELSE WrkOff]
    /\ backlog = << >>
    /\ con = [c \in Clients |-> IF c = 1 THEN ConDone ELSE ConIdle]
    /\ acc = [AccLoopTop EXCEPT !.pc = "accept"]
    /\ conn = [c \in Clients |-> IF c = 1 THEN OpenConn ELSE NoConn]
    /\ conns = <<1>>
    /\ mutex = "free"
    /\ ntf = [n \in Notifiers |-> NtfIdle]
    /\ stp = StpIdle
    /\ dsc = DscIdle
    /\ hist = NoHistory
    /\ fds = FdsWith({1})

RingUnused ==
    /\ ring = << >> /\ prod = << >> /\ cons = << >>
    /\ written = << >> /\ got = << >>

(***************************************************************************)
(* Helpers shared by the frame writers and the two receivers               *)
(***************************************************************************)
\* std::lock_guard lock(m_connectionsMutex): the lock is taken when no
\* thread holds it
MutCanLock(holder) == TRUE
CanLock(holder) == holder = "free"

\* a space check that never fails
MutCanWrite(r, len) == TRUE

\* write(): the loads and the space check on ring r
CanWrite(r, len) == WriteFits(RingSize, r.head, r.tail, len)

\* write(): the memcpys at the head loaded earlier, and the store of head
Commit(r, head, src) ==
    [r EXCEPT !.data = WriteData(RingSize, @, head, src), !.head = head + Len(src)]

\* readAvailable() < sizeof(FrameHeader) + header.payloadBytes, the left side
\* an unsigned 32-bit value, the right side computed in size_t
FrameMissing(avail, payloadBytes) ==
    IF (avail < 0) = (payloadBytes < 0)
    THEN avail < HeaderBytes + payloadBytes
    ELSE payloadBytes < 0

\* the receivers' peek: the 24 bytes read into a FrameHeader, re-encoded and
\* decoded again
PeekHeader(r) ==
    LET bytes == ReadData(RingSize, r.data, r.tail, HeaderBytes)
    IN  CHOOSE dec \in
            {decodeFrameHeader(raw, Len(raw)) :
                raw \in {encodeFrameHeader(wire) :
                            wire \in {HeaderOfBytes(b) : b \in {bytes}}}} : TRUE

\* one round of the receivers' drain loop on ring r:
\*   kind "none": no complete frame visible, the loop breaks;
\*   kind "frame": skip(24) and read(payload) done, r is the ring afterwards
TakeFrame(r) ==
    IF ~ReadFits(r.head, r.tail, HeaderBytes)
    THEN [kind |-> "none", ring |-> r, header |-> NoHeader, payload |-> << >>]
    ELSE LET dec == PeekHeader(r)
             h == dec.header
         IN  IF ~dec.ok \/ FrameMissing(readAvailable(r), h.payloadBytes)
             THEN [kind |-> "none", ring |-> r, header |-> NoHeader, payload |-> << >>]
             ELSE [kind |-> "frame",
                   ring |-> [r EXCEPT !.tail = r.tail + HeaderBytes + h.payloadBytes],
                   header |-> h,
                   payload |-> ReadData(RingSize, r.data, r.tail + HeaderBytes,
                                        h.payloadBytes)]

\* head has fallen behind tail (a stale store of head by a second producer):
\* readAvailable() is then close to 2^32 and the consumer goes on to read
\* gigabytes of stale bytes; the model does not follow a receiver there
Wrecked(r) == r.head - r.tail < 0 \/ r.head - r.tail > RingSize

(***************************************************************************)
(* Client::call, one action per access to shared state.  The callers are   *)
(* threads of client 1.                                                    *)
(***************************************************************************)
CallClient == 1

\* the requests a caller may send: "echo" is the uint32 request of the tests
\* (method 7, a value of the caller's own); "big" is the largest payload that
\* fits into an empty ring together with its header
BigLen == RingSize - HeaderBytes
Kinds == IF workload \in {"echo", "disconnect", "answer", "status", "nohandler"} THEN {"echo"} ELSE {"echo", "big"}
Request(kind, t, n) ==
    IF kind = "echo" THEN toBytes(10 * t + n) ELSE [k \in 1..BigLen |-> 1]

\* timeoutMs: "long" outlasts every delay of the other threads and expires
\* only once none of them can take a step; "short" may expire at any moment
Timeouts == IF workload \in {"echo", "disconnect", "answer", "status", "nohandler"} THEN {"long"} ELSE {"long", "short"}

\* the threads that call and the calls they make in all: while the service
\* is being stopped one thread makes one call, while the client disconnects
\* one thread makes the calls, while a notification races with a response
\* one thread makes one call, and none calls while only notifications are sent
ActiveCallers ==
    IF workload \in {"broadcast", "peerdown"} THEN {}
    ELSE IF workload \in {"stop", "disconnect", "drain", "answer", "status",
                          "nohandler"} THEN {1}
    ELSE Callers
CallBudget ==
    IF workload \in {"stop", "answer"} THEN 1
    ELSE IF workload = "drain" THEN MaxDrainCalls ELSE MaxCalls

CallerBusy(t) == call[t].pc \notin {"idle", "wait", "fault"}
WorkerBusy(c) ==
    /\ wrk[c].pc \notin {"off", "done"}
    /\ ~(wrk[c].pc = "recv" /\ sock[c].toSrv = << >> /\ ~sock[c].shut)
ReceiverBusy(c) ==
    /\ rcv[c] \notin {"off", "done"}
    /\ ~(rcv[c] = "recv" /\ sock[c].toCli = << >> /\ ~sock[c].shut)
ConnectBusy(c) ==
    \/ con[c].pc = "send"
    \/ con[c].pc = "ack" /\ (sock[c].toCli # << >> \/ sock[c].shut)
AcceptorBusy ==
    /\ acc.pc # "done"
    /\ ~(acc.pc = "accept" /\ backlog = << >> /\ srv.listenFd)
    /\ ~(acc.pc = "hello" /\ sock[acc.peer].hello = 0 /\ ~sock[acc.peer].shut)
NotifyBusy == \E n \in Notifiers : ntf[n].pc \notin {"idle", "done"}
StopBusy ==
    /\ stp.pc \notin {"idle", "done"}
    /\ ~(stp.pc = "joinAcceptor" /\ acc.pc # "done")
    /\ ~(stp.pc = "join" /\ stp.at <= Len(conns) /\ wrk[conns[stp.at]].pc # "done")
DisconnectBusy(c) ==
    /\ dsc[c].pc \notin {"idle", "done"}
    /\ ~(dsc[c].pc = "join" /\ rcv[c] # "done")
Quiet ==
    /\ \A t \in Callers : ~CallerBusy(t)
    /\ \A c \in Clients : ~WorkerBusy(c) /\ ~ReceiverBusy(c) /\ ~ConnectBusy(c)
    /\ \A c \in Clients : ~DisconnectBusy(c)
    /\ ~AcceptorBusy /\ ~NotifyBusy /\ ~StopBusy

\* the header Client::call builds
RequestHeader(methodId, seq, request) ==
    FrameHeader(PROTOCOL_VERSION, FRAME_REQUEST, 1, methodId, seq, Len(request), 0)

\* call(): the m_running / m_region check, seq = m_nextSeq.fetch_add(1),
\* encoded = encodeFrameHeader(header)
CallBegin(t) ==
    /\ call[t].pc = "idle"
    /\ t \in ActiveCallers
    /\ call[t].n < CallBudget
    /\ cli[CallClient].nextSeq <= CallBudget
    /\ \E kind \in Kinds, tmo \in Timeouts :
          IF ~cli[CallClient].running \/ ~cli[CallClient].region
          THEN /\ call' = [call EXCEPT ![t] = [CallIdle EXCEPT
                             !.n = call[t].n + 1, !.tmo = tmo,
                             !.req = Request(kind, t, call[t].n + 1),
                             !.ret = RPC_ERR_DISCONNECTED]]
               /\ cli' = cli
          ELSE /\ call' = [call EXCEPT ![t] = [CallIdle EXCEPT
                             !.pc = "hdr1", !.n = call[t].n + 1, !.tmo = tmo,
                             !.seq = cli[CallClient].nextSeq,
                             !.method = EchoMethod,
                             !.req = Request(kind, t, call[t].n + 1),
                             !.encoded = encodeFrameHeader(RequestHeader(
                                 EchoMethod, cli[CallClient].nextSeq,
                                 Request(kind, t, call[t].n + 1)))]]
               /\ cli' = [cli EXCEPT ![CallClient].nextSeq = @ + 1]
    /\ UNCHANGED <<unitVars, ringVars, lifeVars, workload, fds, dsc, hist, shmVars, sock, mpending, rcv, notified, srvVars>>

\* call(): clientToServer.write(header), loads and space check;
\* on failure return RPC_ERR_RING_FULL
CallHdrLoad(t) ==
    /\ call[t].pc = "hdr1"
    /\ cli[CallClient].region
    /\ call' = [call EXCEPT ![t] =
                  IF CanWrite(c2s[CallClient], HeaderBytes)
                  THEN [@ EXCEPT !.pc = "hdr2", !.head = c2s[CallClient].head]
                  ELSE [@ EXCEPT !.pc = "idle", !.ret = RPC_ERR_RING_FULL]]
    /\ UNCHANGED <<unitVars, ringVars, lifeVars, workload, fds, dsc, hist, shmVars, sock, cli, mpending, rcv, notified, srvVars>>

\* call(): clientToServer.write(header), memcpy and store of head
CallHdrStore(t) ==
    /\ call[t].pc = "hdr2"
    /\ cli[CallClient].region
    /\ c2s' = [c2s EXCEPT ![CallClient] = Commit(@, call[t].head, call[t].encoded)]
    /\ call' = [call EXCEPT ![t].pc = "pay1", ![t].head = 0, ![t].encoded = << >>]
    /\ UNCHANGED <<unitVars, ringVars, lifeVars, workload, fds, dsc, hist, s2c, sock, cli, mpending, rcv, notified, srvVars>>

\* call(): clientToServer.write(request), loads and space check;
\* on failure return RPC_ERR_RING_FULL
CallPayLoad(t) ==
    /\ call[t].pc = "pay1"
    /\ cli[CallClient].region
    /\ call' = [call EXCEPT ![t] =
                  IF CanWrite(c2s[CallClient], Len(call[t].req))
                  THEN [@ EXCEPT !.pc = "pay2", !.head = c2s[CallClient].head]
                  ELSE [@ EXCEPT !.pc = "idle", !.ret = RPC_ERR_RING_FULL]]
    /\ UNCHANGED <<unitVars, ringVars, lifeVars, workload, fds, dsc, hist, shmVars, sock, cli, mpending, rcv, notified, srvVars>>

\* call(): clientToServer.write(request), memcpy and store of head
CallPayStore(t) ==
    /\ call[t].pc = "pay2"
    /\ cli[CallClient].region
    /\ c2s' = [c2s EXCEPT ![CallClient] = Commit(@, call[t].head, call[t].req)]
    /\ call' = [call EXCEPT ![t].pc = "insert", ![t].head = 0]
    /\ hist' = [hist EXCEPT !.written = Append(@, call[t].seq)]
    /\ UNCHANGED <<unitVars, ringVars, lifeVars, workload, fds, dsc, s2c, sock, cli, mpending, rcv, notified, srvVars>>

\* call(): an access to m_region->clientToServer after disconnect() has
\* unmapped the region: the thread faults and never returns
CallFault(t) ==
    /\ call[t].pc \in {"hdr1", "hdr2", "pay1", "pay2"}
    /\ ~cli[CallClient].region
    /\ call' = [call EXCEPT ![t].pc = "fault"]
    /\ UNCHANGED <<unitVars, ringVars, lifeVars, workload, fds, dsc, hist, shmVars, sock, cli, mpending, rcv, notified, srvVars>>

\* call(): m_pending[seq] = pending, under m_pendingMutex
CallInsert(t) ==
    /\ call[t].pc = "insert"
    /\ mpending' = [mpending EXCEPT ![CallClient] = @ \cup {call[t].seq}]
    /\ call' = [call EXCEPT ![t].pc = "signal"]
    /\ UNCHANGED <<unitVars, ringVars, lifeVars, workload, fds, dsc, hist, shmVars, sock, cli, rcv, notified, srvVars>>

\* sendSignalByte(fd) > 0: the socket is open and not shut down
CanSend(fdSet, sk) == fdSet /\ sk.state = "connected" /\ ~sk.shut

\* call(): sendSignalByte(m_socketFd); on failure return RPC_ERR_DISCONNECTED
CallSignal(t) ==
    /\ call[t].pc = "signal"
    /\ IF CanSend(cli[CallClient].socketFd, sock[CallClient])
       THEN /\ sock' = [sock EXCEPT ![CallClient].toSrv = Append(@, 1)]
            /\ call' = [call EXCEPT ![t].pc = "wait"]
       ELSE /\ sock' = sock
            /\ call' = [call EXCEPT ![t].pc = "idle", ![t].ret = RPC_ERR_DISCONNECTED]
    /\ UNCHANGED <<unitVars, ringVars, lifeVars, workload, fds, dsc, hist, shmVars, cli, mpending, rcv, notified, srvVars>>

\* call(): wait_for returned true (done): take status and, on RPC_SUCCESS,
\* the response; erase the entry; return status
CallWake(t) ==
    /\ call[t].pc = "wait"
    /\ call[t].done
    /\ call' = [call EXCEPT ![t].pc = "idle",
                            ![t].ret = call[t].status,
                            ![t].resp = IF call[t].status = RPC_SUCCESS
                                        THEN call[t].response ELSE @]
    /\ mpending' = [mpending EXCEPT ![CallClient] = @ \ {call[t].seq}]
    /\ UNCHANGED <<unitVars, ringVars, lifeVars, workload, fds, dsc, hist, shmVars, sock, cli, rcv, notified, srvVars>>

\* call(): wait_for timed out with done still false: erase the entry and
\* return RPC_ERR_TIMEOUT
CallTimeout(t) ==
    /\ call[t].pc = "wait"
    /\ ~call[t].done
    /\ call[t].tmo = "short" \/ Quiet
    /\ call' = [call EXCEPT ![t].pc = "idle", ![t].ret = RPC_ERR_TIMEOUT]
    /\ mpending' = [mpending EXCEPT ![CallClient] = @ \ {call[t].seq}]
    /\ UNCHANGED <<unitVars, ringVars, lifeVars, workload, fds, dsc, hist, shmVars, sock, cli, rcv, notified, srvVars>>

(***************************************************************************)
(* Service::connectionLoop of connection c                                 *)
(***************************************************************************)
\* recvSignalByte(fd) can return: a message is queued, or the connection has
\* been shut down
CanRecv(queue, sk) == queue # << >> \/ sk.shut

\* while (m_running.load())
SrvLoop(c) ==
    /\ wrk[c].pc = "loop"
    /\ wrk' = [wrk EXCEPT ![c].pc = IF srv.running THEN "recv" ELSE "done"]
    /\ UNCHANGED <<unitVars, ringVars, lifeVars, workload, fds, dsc, hist, shmVars, sock, cliVars, srv>>

\* n = recvSignalByte(socketFd); if (n <= 0) break
SrvRecv(c) ==
    /\ wrk[c].pc = "recv"
    /\ CanRecv(sock[c].toSrv, sock[c])
    /\ IF sock[c].toSrv # << >>
       THEN /\ sock' = [sock EXCEPT ![c].toSrv = Tail(@)]
            /\ wrk' = [wrk EXCEPT ![c].pc = "drain"]
       ELSE /\ sock' = sock
            /\ wrk' = [wrk EXCEPT ![c].pc = "done"]
    /\ UNCHANGED <<unitVars, ringVars, lifeVars, workload, fds, dsc, hist, shmVars, cliVars, srv>>

\* one round of the inner while (true): peek, decode, the readAvailable
\* check, skip and read; a REQUEST frame goes to the handler, any other
\* frame is dropped
SrvDrain(c) ==
    /\ wrk[c].pc = "drain"
    /\ ~Wrecked(c2s[c])
    /\ LET f == TakeFrame(c2s[c])
       IN  /\ c2s' = [c2s EXCEPT ![c] = f.ring]
           /\ wrk' = [wrk EXCEPT ![c] =
                        IF f.kind = "none" THEN [@ EXCEPT !.pc = "loop"]
                        ELSE IF HasFlag(f.header.flags, FRAME_REQUEST)
                        THEN [@ EXCEPT !.pc = "handler", !.hdr = f.header,
                                       !.payload = f.payload]
                        ELSE @]
           /\ hist' = IF f.kind # "none" /\ HasFlag(f.header.flags, FRAME_REQUEST)
                      THEN [hist EXCEPT !.handled = Append(@, f.header.seq)]
                      ELSE hist
    /\ UNCHANGED <<unitVars, ringVars, lifeVars, workload, fds, dsc, s2c, sock, cliVars, srv>>

\* the RESPONSE header the worker builds
ResponseHeader(request, status, response) ==
    FrameHeader(PROTOCOL_VERSION, FRAME_RESPONSE, request.serviceId,
                request.messageId, request.seq, Len(response), status)

\* the statuses a handler may return besides RPC_SUCCESS: user-defined
\* positive ones up to INT_MAX, and negative ones down to INT_MIN
Statuses == {RPC_SUCCESS, 5, 2147483647, RPC_ERR_INVALID_METHOD, -2147483647 - 1}

\* what the handler step yields for a request: RPC_ERR_INVALID_METHOD and no
\* payload when no handler is installed; else what the installed handler
\* returns: the tests' handler, or (workload "status") a handler that answers
\* like it with any of the statuses
Outcomes(messageId, request) ==
    IF ~srv.handler
    THEN {[status |-> RPC_ERR_INVALID_METHOD, response |-> << >>]}
    ELSE IF workload = "status"
    THEN {[status |-> st, response |-> Handler(messageId, request).response] :
             st \in Statuses}
    ELSE {Handler(messageId, request)}

\* handler = m_handler (under m_handlerMutex); status = handler(messageId,
\* payload, &responsePayload), or RPC_ERR_INVALID_METHOD without a handler;
\* encoded = encodeFrameHeader(response).
\* The worker is inside the handler while its pc is "handler".
SrvHandler(c) ==
    /\ wrk[c].pc = "handler"
    /\ \E out \in Outcomes(wrk[c].hdr.messageId, wrk[c].payload) :
          /\ wrk' = [wrk EXCEPT ![c].pc = "rh1", ![c].status = out.status,
                                ![c].response = out.response, ![c].payload = << >>,
                                ![c].encoded = encodeFrameHeader(ResponseHeader(
                                    wrk[c].hdr, out.status, out.response))]
          /\ hist' = [hist EXCEPT !.out = Append(@,
                          [seq |-> wrk[c].hdr.seq, status |-> out.status,
                           response |-> out.response])]
    /\ UNCHANGED <<unitVars, ringVars, lifeVars, workload, fds, dsc, shmVars, sock, cliVars, srv>>

\* the worker's locals once it is back in the drain loop
WrkDrain == [WrkOff EXCEPT !.pc = "drain"]

\* serverToClient.write(encoded): loads and space check; on failure continue
SrvRespHdrLoad(c) ==
    /\ wrk[c].pc = "rh1"
    /\ wrk' = [wrk EXCEPT ![c] =
                 IF CanWrite(s2c[c], HeaderBytes)
                 THEN [@ EXCEPT !.pc = "rh2", !.head = s2c[c].head]
                 ELSE WrkDrain]
    /\ UNCHANGED <<unitVars, ringVars, lifeVars, workload, fds, dsc, hist, shmVars, sock, cliVars, srv>>

\* serverToClient.write(encoded): memcpy and store of head
SrvRespHdrStore(c) ==
    /\ wrk[c].pc = "rh2"
    /\ s2c' = [s2c EXCEPT ![c] = Commit(@, wrk[c].head, wrk[c].encoded)]
    /\ wrk' = [wrk EXCEPT ![c].pc = "rp1", ![c].head = 0]
    /\ UNCHANGED <<unitVars, ringVars, lifeVars, workload, fds, dsc, hist, c2s, sock, cliVars, srv>>

\* serverToClient.write(responsePayload): loads and space check; on failure
\* continue
SrvRespPayLoad(c) ==
    /\ wrk[c].pc = "rp1"
    /\ wrk' = [wrk EXCEPT ![c] =
                 IF CanWrite(s2c[c], Len(wrk[c].response))
                 THEN [@ EXCEPT !.pc = "rp2", !.head = s2c[c].head]
                 ELSE WrkDrain]
    /\ UNCHANGED <<unitVars, ringVars, lifeVars, workload, fds, dsc, hist, shmVars, sock, cliVars, srv>>

\* serverToClient.write(responsePayload): memcpy and store of head
SrvRespPayStore(c) ==
    /\ wrk[c].pc = "rp2"
    /\ s2c' = [s2c EXCEPT ![c] = Commit(@, wrk[c].head, wrk[c].response)]
    /\ wrk' = [wrk EXCEPT ![c].pc = "signal", ![c].head = 0]
    /\ hist' = [hist EXCEPT !.answered = Append(@, wrk[c].hdr.seq)]
    /\ UNCHANGED <<unitVars, ringVars, lifeVars, workload, fds, dsc, c2s, sock, cliVars, srv>>

\* platform::sendSignalByte(connection->socketFd), result ignored
SrvSignal(c) ==
    /\ wrk[c].pc = "signal"
    /\ sock' = [sock EXCEPT ![c].toCli =
                  IF CanSend(conn[c].socketFd, sock[c]) THEN Append(@, 1) ELSE @]
    /\ wrk' = [wrk EXCEPT ![c] = WrkDrain]
    /\ UNCHANGED <<unitVars, ringVars, lifeVars, workload, fds, dsc, hist, shmVars, cliVars, srv>>

(***************************************************************************)
(* Client::receiverLoop of client c                                        *)
(***************************************************************************)
\* while (m_running.load())
CliLoop(c) ==
    /\ rcv[c] = "loop"
    /\ rcv' = [rcv EXCEPT ![c] = IF cli[c].running THEN "recv" ELSE "exit"]
    /\ UNCHANGED <<unitVars, ringVars, lifeVars, workload, fds, dsc, hist, shmVars, sock, cli, mpending, notified, call, srvVars>>

\* n = recvSignalByte(m_socketFd); if (n <= 0) break
CliRecv(c) ==
    /\ rcv[c] = "recv"
    /\ CanRecv(sock[c].toCli, sock[c])
    /\ IF sock[c].toCli # << >>
       THEN /\ sock' = [sock EXCEPT ![c].toCli = Tail(@)]
            /\ rcv' = [rcv EXCEPT ![c] = "drain"]
       ELSE /\ sock' = sock
            /\ rcv' = [rcv EXCEPT ![c] = "exit"]
    /\ UNCHANGED <<unitVars, ringVars, lifeVars, workload, fds, dsc, hist, shmVars, cli, mpending, notified, call, srvVars>>

\* the caller whose PendingCall object m_pending[seq] points to, if any
MutOwners(c, seq) ==
    {t \in Callers : c = CallClient /\ call[t].pc \in {"signal", "wait"}}
Owners(c, seq) ==
    {t \in Callers : /\ c = CallClient
                     /\ seq \in mpending[c]
                     /\ call[t].seq = seq
                     /\ call[t].pc \in {"signal", "wait"}}

\* RESPONSE: it->second->status = static_cast<int>(header.aux); response =
\* payload; done = true; notify_one(), when m_pending.find(seq) finds an entry
Complete(c, header, payload) ==
    [t \in Callers |->
        IF t \in Owners(c, header.seq)
        THEN [call[t] EXCEPT !.status = header.aux, !.response = payload,
                             !.done = TRUE]
        ELSE call[t]]

\* one round of the inner while (true): peek, decode, the readAvailable
\* check, skip, read and the dispatch of the frame (a RESPONSE completes its
\* pending call, a NOTIFY is handed to the notify handler)
CliDrain(c) ==
    /\ rcv[c] = "drain"
    /\ ~Wrecked(s2c[c])
    /\ LET f == TakeFrame(s2c[c])
       IN  /\ s2c' = [s2c EXCEPT ![c] = f.ring]
           /\ rcv' = [rcv EXCEPT ![c] = IF f.kind = "none" THEN "loop" ELSE "drain"]
           /\ call' = IF f.kind = "frame" /\ HasFlag(f.header.flags, FRAME_RESPONSE)
                      THEN Complete(c, f.header, f.payload)
                      ELSE call
           /\ notified' = IF /\ f.kind = "frame"
                             /\ ~HasFlag(f.header.flags, FRAME_RESPONSE)
                             /\ HasFlag(f.header.flags, FRAME_NOTIFY)
                          THEN [notified EXCEPT ![c] =
                                   Append(@, <<f.header.messageId, f.payload>>)]
                          ELSE notified
    /\ UNCHANGED <<unitVars, ringVars, lifeVars, workload, fds, dsc, hist, c2s, sock, cli, mpending, srvVars>>

(***************************************************************************)
(* Client::connect of client c                                             *)
(***************************************************************************)
\* the versions a client may announce: the service's and a newer one (while
\* the service is being stopped, only the service's)
Versions ==
    IF workload = "stop" THEN {PROTOCOL_VERSION}
    ELSE {PROTOCOL_VERSION, PROTOCOL_VERSION + 1}

\* a disconnect() that clears m_running only
MutReleased(client) == [client EXCEPT !.running = FALSE]

\* Client::disconnect() when m_running is false: unmap the region, close the
\* fds
Released(client) ==
    [client EXCEPT !.running = FALSE, !.socketFd = FALSE, !.shmFd = FALSE,
                   !.region = FALSE]

\* the fds disconnect() closes: if (m_shmFd >= 0) close, if (m_socketFd >= 0)
\* close
ReleasedFds(f, c) ==
    CloseIf(cli[c].socketFd, CloseIf(cli[c].shmFd, f, "cliShm", c), "cliSock", c)

\* the clients that call connect() and disconnect(): where the fds are
\* followed, one client
ActiveClients == IF workload = "fds" THEN {1} ELSE Clients

\* whether mmap() succeeds: it may fail where the fds are followed
MapResults == IF workload = "fds" THEN {TRUE, FALSE} ELSE {TRUE}

\* connect() may be called: on a client that has not called it; where the
\* fds are followed also again, once no thread is in connect() or
\* disconnect() on the client and the service holds no connection of it (the
\* service has rejected or closed it, or has stopped).  On a client that is
\* running the call is followed only where connectClientSocket fails: past
\* it connect() would assign m_receiverThread while it is joinable, which
\* ends the process
CanConnect(c) ==
    \/ con[c].pc = "idle" /\ c \in ActiveClients
    \/ /\ workload = "fds"
       /\ con[c].pc = "done"
       /\ dsc[c].pc \in {"idle", "done"}
       /\ fds.connects[c] < MaxConnects
       /\ conn[c] = NoConn
       /\ \A i \in 1..Len(backlog) : backlog[i] # c
       /\ cli[c].running => ~srv.listenFd

\* m_socketFd = connectClientSocket(): succeeds while the service listens;
\* the peer is then queued on the listen socket until accept4 takes it; else
\* m_socketFd is -1 and connect returns false
ConnSocket(c) ==
    /\ CanConnect(c)
    /\ \E version \in Versions :
          IF srv.listenFd
          THEN /\ con' = [con EXCEPT ![c] = [pc |-> "send", ret |-> FALSE,
                                             version |-> version]]
               /\ sock' = [sock EXCEPT ![c] = OpenSock]
               /\ backlog' = Append(backlog, c)
               /\ cli' = [cli EXCEPT ![c].socketFd = TRUE]
               /\ fds' = [Opened(fds, "cliSock", c) EXCEPT !.connects[c] = @ + 1]
          ELSE /\ con' = [con EXCEPT ![c] = [pc |-> "done", ret |-> FALSE,
                                             version |-> version]]
               /\ cli' = [cli EXCEPT ![c].socketFd = FALSE]
               /\ fds' = [fds EXCEPT !.connects[c] = @ + 1]
               /\ UNCHANGED <<sock, backlog>>
    /\ UNCHANGED <<unitVars, ringVars, workload, dsc, hist, shmVars, mpending, rcv, notified, call,
                   srvVars, acc, conn, conns, mutex, ntf, stp>>

\* createSharedMemory, mmap (on failure close both fds and return false),
\* reset() of both rings, sendFdWithVersion; on a failed send disconnect()
\* and return false
ConnSendFd(c) ==
    /\ con[c].pc = "send"
    /\ \E mapped \in MapResults :
          IF ~mapped
          THEN /\ cli' = [cli EXCEPT ![c].shmFd = FALSE, ![c].socketFd = FALSE]
               /\ fds' = Closed(Closed(Opened(fds, "cliShm", c), "cliShm", c),
                                "cliSock", c)
               /\ sock' = [sock EXCEPT ![c].shut = TRUE]
               /\ con' = [con EXCEPT ![c].pc = "done", ![c].ret = FALSE]
               /\ UNCHANGED shmVars
          ELSE IF CanSend(cli[c].socketFd, sock[c])
          THEN /\ cli' = [cli EXCEPT ![c].shmFd = TRUE, ![c].region = TRUE]
               /\ fds' = Opened(fds, "cliShm", c)
               /\ c2s' = [c2s EXCEPT ![c] = reset(@)]
               /\ s2c' = [s2c EXCEPT ![c] = reset(@)]
               /\ sock' = [sock EXCEPT ![c].hello = con[c].version]
               /\ con' = [con EXCEPT ![c].pc = "ack"]
          ELSE /\ cli' = [cli EXCEPT ![c] = Released(@)]
               /\ fds' = CloseIf(cli[c].socketFd,
                                 Closed(Opened(fds, "cliShm", c), "cliShm", c),
                                 "cliSock", c)
               /\ sock' = [sock EXCEPT ![c].shut = TRUE]
               /\ con' = [con EXCEPT ![c].pc = "done", ![c].ret = FALSE]
               /\ UNCHANGED shmVars
    /\ UNCHANGED <<unitVars, ringVars, workload, dsc, hist, mpending, rcv, notified, call, srvVars,
                   backlog, acc, conn, conns, mutex, ntf, stp>>

\* recv(ack): on end of file or ack == 0 disconnect() and return false; else
\* m_running = true, start the receiver thread, return true
ConnRecvAck(c) ==
    /\ con[c].pc = "ack"
    /\ CanRecv(sock[c].toCli, sock[c])
    /\ IF sock[c].toCli # << >> /\ Head(sock[c].toCli) # 0
       THEN /\ sock' = [sock EXCEPT ![c].toCli = Tail(@)]
            /\ cli' = [cli EXCEPT ![c].running = TRUE]
            /\ rcv' = [rcv EXCEPT ![c] = "loop"]
            /\ con' = [con EXCEPT ![c].pc = "done", ![c].ret = TRUE]
            /\ fds' = fds
       ELSE /\ sock' = [sock EXCEPT ![c].toCli = IF @ = << >> THEN @ ELSE Tail(@),
                                    ![c].shut = TRUE]
            /\ cli' = [cli EXCEPT ![c] = Released(@)]
            /\ fds' = ReleasedFds(fds, c)
            /\ rcv' = rcv
            /\ con' = [con EXCEPT ![c].pc = "done", ![c].ret = FALSE]
    /\ UNCHANGED <<unitVars, ringVars, workload, dsc, hist, shmVars, mpending, notified, call, srvVars,
                   backlog, acc, conn, conns, mutex, ntf, stp>>

(***************************************************************************)
(* Service::acceptLoop                                                     *)
(***************************************************************************)
\* while (m_running.load())
AccLoop ==
    /\ acc.pc = "loop"
    /\ acc' = [acc EXCEPT !.pc = IF srv.running THEN "accept" ELSE "done"]
    /\ UNCHANGED <<unitVars, ringVars, workload, fds, dsc, hist, shmVars, sock, cliVars, srvVars,
                   backlog, con, conn, conns, mutex, ntf, stp>>

\* accept4(m_listenFd): returns a queued peer, or fails once the listen
\* socket has been shut down; on failure break if !m_running, else continue
AccAccept ==
    /\ acc.pc = "accept"
    /\ backlog # << >> \/ ~srv.listenFd
    /\ IF srv.listenFd
       THEN /\ acc' = [acc EXCEPT !.pc = "hello", !.peer = Head(backlog)]
            /\ backlog' = Tail(backlog)
            /\ conn' = [conn EXCEPT ![Head(backlog)].socketFd = TRUE]
            /\ fds' = Opened(fds, "srvSock", Head(backlog))
       ELSE /\ acc' = [acc EXCEPT !.pc = IF ~srv.running THEN "done" ELSE "loop"]
            /\ UNCHANGED <<backlog, conn, fds>>
    /\ UNCHANGED <<unitVars, ringVars, workload, dsc, hist, shmVars, sock, cliVars, srvVars,
                   con, conns, mutex, ntf, stp>>

\* close(clientFd) and, where it was received, close(shmFd)
Dropped(sk) == [sk EXCEPT !.shut = TRUE]

\* recvFdWithVersion(clientFd, &version, &shmFd): blocks until the peer's
\* handshake message or its end of file; on failure close(clientFd), continue
AccHello ==
    /\ acc.pc = "hello"
    /\ sock[acc.peer].hello # 0 \/ sock[acc.peer].shut
    /\ IF sock[acc.peer].hello # 0
       THEN /\ acc' = [acc EXCEPT !.pc = "ack", !.version = sock[acc.peer].hello]
            /\ sock' = [sock EXCEPT ![acc.peer].hello = 0]
            /\ conn' = [conn EXCEPT ![acc.peer].shmFd = TRUE]
            /\ fds' = Opened(fds, "srvShm", acc.peer)
       ELSE /\ acc' = AccLoopTop
            /\ sock' = [sock EXCEPT ![acc.peer] = Dropped(@)]
            /\ conn' = [conn EXCEPT ![acc.peer] = NoConn]
            /\ fds' = Closed(fds, "srvSock", acc.peer)
    /\ UNCHANGED <<unitVars, ringVars, workload, dsc, hist, shmVars, cliVars, srvVars,
                   backlog, con, conns, mutex, ntf, stp>>

\* an acknowledgement that accepts every version
MutAck(version) == 1

\* ack = (version == PROTOCOL_VERSION) ? 1 : 0
Ack(version) == IF version = PROTOCOL_VERSION THEN 1 ELSE 0

\* send(clientFd, &ack); on ack == 0 close both fds and continue
AccAck ==
    /\ acc.pc = "ack"
    /\ LET ack == Ack(acc.version)
           sent == [sock[acc.peer] EXCEPT !.toCli =
                       IF CanSend(conn[acc.peer].socketFd, sock[acc.peer])
                       THEN Append(@, ack) ELSE @]
       IN  IF ack = 0
           THEN /\ sock' = [sock EXCEPT ![acc.peer] = Dropped(sent)]
                /\ conn' = [conn EXCEPT ![acc.peer] = NoConn]
                /\ acc' = AccLoopTop
                /\ fds' = Closed(Closed(fds, "srvShm", acc.peer), "srvSock", acc.peer)
           ELSE /\ sock' = [sock EXCEPT ![acc.peer] = sent]
                /\ conn' = conn
                /\ acc' = [acc EXCEPT !.pc = "mmap"]
                /\ fds' = fds
    /\ UNCHANGED <<unitVars, ringVars, workload, dsc, hist, shmVars, cliVars, srvVars,
                   backlog, con, conns, mutex, ntf, stp>>

\* mmap of the received fd (on failure close both fds and continue), the new
\* Connection, and the start of its worker thread
AccStart ==
    /\ acc.pc = "mmap"
    /\ \E mapped \in MapResults :
          IF mapped
          THEN /\ conn' = [conn EXCEPT ![acc.peer] = OpenConn]
               /\ wrk' = [wrk EXCEPT ![acc.peer] = [WrkOff EXCEPT !.pc = "loop"]]
               /\ acc' = [acc EXCEPT !.pc = "publish"]
               /\ UNCHANGED <<sock, fds>>
          ELSE /\ conn' = [conn EXCEPT ![acc.peer] = NoConn]
               /\ sock' = [sock EXCEPT ![acc.peer] = Dropped(@)]
               /\ fds' = Closed(Closed(fds, "srvShm", acc.peer), "srvSock", acc.peer)
               /\ acc' = AccLoopTop
               /\ wrk' = wrk
    /\ UNCHANGED <<unitVars, ringVars, workload, dsc, hist, shmVars, cliVars, srv,
                   backlog, con, conns, mutex, ntf, stp>>

\* m_connections.push_back(connection), under m_connectionsMutex
AccPublish ==
    /\ acc.pc = "publish"
    /\ CanLock(mutex)
    /\ conns' = Append(conns, acc.peer)
    /\ acc' = AccLoopTop
    /\ UNCHANGED <<unitVars, ringVars, workload, fds, dsc, hist, shmVars, sock, cliVars, srvVars,
                   backlog, con, conn, mutex, ntf, stp>>

(***************************************************************************)
(* Client::receiverLoop after its loop                                     *)
(***************************************************************************)
\* the same loop failing the entries with RPC_ERR_STOPPED, as
\* Client::disconnect does
MutFailPending(c) ==
    [t \in Callers |->
        IF c = CallClient /\ call[t].seq \in mpending[c]
                          /\ call[t].pc \in {"signal", "wait"}
        THEN [call[t] EXCEPT !.status = RPC_ERR_STOPPED, !.done = TRUE]
        ELSE call[t]]

\* for every entry of m_pending: status = RPC_ERR_DISCONNECTED, done = true,
\* notify_one(); the entries stay in the table
FailPending(c) ==
    [t \in Callers |->
        IF c = CallClient /\ call[t].seq \in mpending[c]
                          /\ call[t].pc \in {"signal", "wait"}
        THEN [call[t] EXCEPT !.status = RPC_ERR_DISCONNECTED, !.done = TRUE]
        ELSE call[t]]

CliExit(c) ==
    /\ rcv[c] = "exit"
    /\ call' = FailPending(c)
    /\ rcv' = [rcv EXCEPT ![c] = "done"]
    /\ UNCHANGED <<unitVars, ringVars, lifeVars, workload, fds, dsc, hist, shmVars, sock, cli, mpending,
                   notified, srvVars>>

(***************************************************************************)
(* Client::disconnect of client c, one thread per client calling it once   *)
(***************************************************************************)
\* the calls (caller and seq) that are waiting on their pending entry
Waiting(c) ==
    {<<t, call[t].seq>> : t \in {u \in Callers :
        c = CallClient /\ call[u].pc = "wait" /\ ~call[u].done}}

\* disconnect() may be called: on a client on which it has not been called;
\* where the fds or the calls against it are followed also again after it
\* has returned
CanDisconnect(c) ==
    \/ dsc[c].pc = "idle" /\ c \in ActiveClients
    \/ /\ workload \in {"fds", "disconnect"}
       /\ dsc[c].pc = "done"
       /\ fds.disconnects[c] < MaxDisconnects

\* no thread is inside Client::call on client c between its m_running check
\* and its wait
Calm(c) == c = CallClient => \A t \in Callers : call[t].pc \in {"idle", "wait"}

\* if (!m_running.exchange(false)): release the resources and return; the
\* thread also notes which calls were waiting when it was called, and whether
\* any call was on its way to the wait
DiscBegin(c) ==
    /\ CanDisconnect(c)
    /\ con[c].pc \in {"idle", "done"}
    /\ IF cli[c].running
       THEN /\ dsc' = [dsc EXCEPT ![c] = [pc |-> "shutdown", waiting |-> Waiting(c),
                                           calm |-> Calm(c)]]
            /\ cli' = [cli EXCEPT ![c].running = FALSE]
            /\ sock' = sock
            /\ fds' = [fds EXCEPT !.disconnects[c] = @ + 1]
       ELSE /\ dsc' = [dsc EXCEPT ![c] = [pc |-> "done", waiting |-> {},
                                           calm |-> dsc[c].calm /\ Calm(c)]]
            /\ cli' = [cli EXCEPT ![c] = Released(@)]
            /\ sock' = [sock EXCEPT ![c] = IF cli[c].socketFd THEN Dropped(@) ELSE @]
            /\ fds' = [ReleasedFds(fds, c) EXCEPT !.disconnects[c] = @ + 1]
    /\ UNCHANGED <<unitVars, ringVars, lifeVars, workload, hist, shmVars, mpending, rcv,
                   notified, call, srvVars>>

\* shutdown(m_socketFd, SHUT_RDWR)
DiscShutdown(c) ==
    /\ dsc[c].pc = "shutdown"
    /\ sock' = [sock EXCEPT ![c] = IF cli[c].socketFd THEN Dropped(@) ELSE @]
    /\ dsc' = [dsc EXCEPT ![c].pc = "join"]
    /\ UNCHANGED <<unitVars, ringVars, lifeVars, workload, fds, hist, shmVars, cliVars, srvVars>>

\* m_receiverThread.join()
DiscJoin(c) ==
    /\ dsc[c].pc = "join"
    /\ rcv[c] = "done"
    /\ dsc' = [dsc EXCEPT ![c].pc = "fail"]
    /\ UNCHANGED <<unitVars, ringVars, lifeVars, workload, fds, hist, shmVars, sock, cliVars, srvVars>>

\* for every entry of m_pending: status = RPC_ERR_STOPPED, done = true,
\* notify_one()
StopPending(c) ==
    [t \in Callers |->
        IF c = CallClient /\ call[t].seq \in mpending[c]
                          /\ call[t].pc \in {"signal", "wait"}
        THEN [call[t] EXCEPT !.status = RPC_ERR_STOPPED, !.done = TRUE]
        ELSE call[t]]

\* the loop over m_pending and m_pending.clear(), under m_pendingMutex
DiscFail(c) ==
    /\ dsc[c].pc = "fail"
    /\ call' = StopPending(c)
    /\ mpending' = [mpending EXCEPT ![c] = {}]
    /\ dsc' = [dsc EXCEPT ![c].pc = "release"]
    /\ UNCHANGED <<unitVars, ringVars, lifeVars, workload, fds, hist, shmVars, sock, cli, rcv,
                   notified, srvVars>>

\* munmap(m_region), close(m_shmFd), close(m_socketFd)
DiscRelease(c) ==
    /\ dsc[c].pc = "release"
    /\ cli' = [cli EXCEPT ![c] = Released(@)]
    /\ fds' = ReleasedFds(fds, c)
    /\ dsc' = [dsc EXCEPT ![c].pc = "done"]
    /\ UNCHANGED <<unitVars, ringVars, lifeVars, workload, hist, shmVars, sock, mpending,
                   rcv, notified, call, srvVars>>

(***************************************************************************)
(* Service::notify(1, notifyId, toBytes(123)), called by the threads in    *)
(* Notifiers; the first call of thread 1 is the notify(1, 99, ...) of the  *)
(* tests, every other call has a notifyId of its own.                      *)
(***************************************************************************)
NotifyId == 99
NotifyValue == 123

\* the threads that call notify and the calls each of them makes: in a
\* broadcast thread 1 calls MaxNotifies times, every other thread once
ActiveNotifiers == IF workload = "broadcast" THEN Notifiers ELSE {1}
NotifyBudget(n) == IF workload = "broadcast" /\ n = 1 THEN MaxNotifies ELSE 1

\* the notifyId of call number k of thread n
NotifyIdOf(n, k) == NotifyId + (n - 1) * MaxNotifies + (k - 1)

NotifyHeader(notifyId) ==
    FrameHeader(PROTOCOL_VERSION, FRAME_NOTIFY, 1, notifyId, 0,
                Len(toBytes(NotifyValue)), 0)

\* the clients whose connect() has returned true
Connected == {c \in Clients : con[c].pc = "done" /\ con[c].ret}

\* the connections of the list whose peer has not shut down or closed its
\* socket
LivePeers == {c \in Clients : (\E i \in 1..Len(conns) : conns[i] = c) /\ ~sock[c].shut}

\* std::lock_guard lock(m_connectionsMutex); the thread also notes which
\* clients had connected, which connections were listed and which of their
\* peers were still connected when it was called
NtfBegin(n) ==
    /\ ntf[n].pc \in {"idle", "done"}
    /\ n \in ActiveNotifiers
    /\ ntf[n].n < NotifyBudget(n)
    /\ CanLock(mutex)
    /\ mutex' = "notify"
    /\ ntf' = [ntf EXCEPT ![n] = [NtfIdle EXCEPT
                 !.pc = "next", !.at = 1, !.n = ntf[n].n + 1,
                 !.id = NotifyIdOf(n, ntf[n].n + 1),
                 !.clients = Connected, !.list = conns, !.live = LivePeers]]
    /\ UNCHANGED <<unitVars, ringVars, workload, fds, dsc, hist, shmVars, sock, cliVars, srvVars,
                   backlog, con, acc, conn, conns, stp>>

\* notify returns ret and releases the mutex
NtfReturn(n, ret) ==
    [ntf[n] EXCEPT !.pc = "done", !.ret = ret, !.head = 0,
                   !.at = IF ret = RPC_SUCCESS THEN 0 ELSE @]

\* for (auto& c : m_connections): past the end return RPC_SUCCESS; skip a
\* connection whose region is nullptr
NtfNext(n) ==
    /\ ntf[n].pc = "next"
    /\ IF ntf[n].at > Len(conns)
       THEN ntf' = [ntf EXCEPT ![n] = NtfReturn(n, RPC_SUCCESS)] /\ mutex' = "free"
       ELSE /\ ntf' = IF conn[conns[ntf[n].at]].region
                      THEN [ntf EXCEPT ![n].pc = "h1"]
                      ELSE [ntf EXCEPT ![n].at = @ + 1]
            /\ mutex' = mutex
    /\ UNCHANGED <<unitVars, ringVars, workload, fds, dsc, hist, shmVars, sock, cliVars, srvVars,
                   backlog, con, acc, conn, conns, stp>>

\* serverToClient.write(encoded): loads and space check; on failure return
\* RPC_ERR_RING_FULL
NtfHdrLoad(n) ==
    /\ ntf[n].pc = "h1"
    /\ IF CanWrite(s2c[conns[ntf[n].at]], HeaderBytes)
       THEN /\ ntf' = [ntf EXCEPT ![n].pc = "h2",
                                  ![n].head = s2c[conns[ntf[n].at]].head]
            /\ mutex' = mutex
       ELSE ntf' = [ntf EXCEPT ![n] = NtfReturn(n, RPC_ERR_RING_FULL)] /\ mutex' = "free"
    /\ UNCHANGED <<unitVars, ringVars, workload, fds, dsc, hist, shmVars, sock, cliVars, srvVars,
                   backlog, con, acc, conn, conns, stp>>

\* serverToClient.write(encoded): memcpy and store of head
NtfHdrStore(n) ==
    /\ ntf[n].pc = "h2"
    /\ s2c' = [s2c EXCEPT ![conns[ntf[n].at]] =
                 Commit(@, ntf[n].head, encodeFrameHeader(NotifyHeader(ntf[n].id)))]
    /\ ntf' = [ntf EXCEPT ![n].pc = "p1", ![n].head = 0]
    /\ UNCHANGED <<unitVars, ringVars, workload, fds, dsc, hist, c2s, sock, cliVars, srvVars,
                   backlog, con, acc, conn, conns, mutex, stp>>

\* serverToClient.write(payload): loads and space check; on failure return
\* RPC_ERR_RING_FULL
NtfPayLoad(n) ==
    /\ ntf[n].pc = "p1"
    /\ IF CanWrite(s2c[conns[ntf[n].at]], Len(toBytes(NotifyValue)))
       THEN /\ ntf' = [ntf EXCEPT ![n].pc = "p2",
                                  ![n].head = s2c[conns[ntf[n].at]].head]
            /\ mutex' = mutex
       ELSE ntf' = [ntf EXCEPT ![n] = NtfReturn(n, RPC_ERR_RING_FULL)] /\ mutex' = "free"
    /\ UNCHANGED <<unitVars, ringVars, workload, fds, dsc, hist, shmVars, sock, cliVars, srvVars,
                   backlog, con, acc, conn, conns, stp>>

\* serverToClient.write(payload): memcpy and store of head
NtfPayStore(n) ==
    /\ ntf[n].pc = "p2"
    /\ s2c' = [s2c EXCEPT ![conns[ntf[n].at]] =
                 Commit(@, ntf[n].head, toBytes(NotifyValue))]
    /\ ntf' = [ntf EXCEPT ![n].pc = "signal", ![n].head = 0]
    /\ UNCHANGED <<unitVars, ringVars, workload, fds, dsc, hist, c2s, sock, cliVars, srvVars,
                   backlog, con, acc, conn, conns, mutex, stp>>

\* sendSignalByte(c->socketFd); on failure return RPC_ERR_DISCONNECTED; the
\* thread also notes the connections it has written and signalled
NtfSignal(n) ==
    /\ ntf[n].pc = "signal"
    /\ IF CanSend(conn[conns[ntf[n].at]].socketFd, sock[conns[ntf[n].at]])
       THEN /\ sock' = [sock EXCEPT ![conns[ntf[n].at]].toCli = Append(@, 1)]
            /\ ntf' = [ntf EXCEPT ![n].pc = "next", ![n].at = @ + 1,
                                  ![n].sent = Append(@, conns[ntf[n].at])]
            /\ mutex' = mutex
       ELSE /\ sock' = sock
            /\ ntf' = [ntf EXCEPT ![n] = NtfReturn(n, RPC_ERR_DISCONNECTED)]
            /\ mutex' = "free"
    /\ UNCHANGED <<unitVars, ringVars, workload, fds, dsc, hist, shmVars, cliVars, srvVars,
                   backlog, con, acc, conn, conns, stp>>

(***************************************************************************)
(* Service::stop, one thread calling it up to MaxStops times               *)
(***************************************************************************)
\* if (!m_running.exchange(false)) return
StopBegin ==
    /\ stp.pc \in {"idle", "done"}
    /\ stp.n < MaxStops
    /\ stp' = [stp EXCEPT !.pc = IF srv.running THEN "listen" ELSE "done",
                          !.n = @ + 1]
    /\ srv' = [srv EXCEPT !.running = FALSE]
    /\ UNCHANGED <<unitVars, ringVars, workload, fds, dsc, hist, shmVars, sock, cliVars, wrk,
                   backlog, con, acc, conn, conns, mutex, ntf>>

\* shutdown(m_listenFd), close(m_listenFd), m_listenFd = -1: the peers still
\* queued on the listen socket are reset
StopListen ==
    /\ stp.pc = "listen"
    /\ srv' = [srv EXCEPT !.listenFd = FALSE]
    /\ fds' = IF ~srv.listenFd THEN fds
              ELSE IF fds.listen = 0 THEN [fds EXCEPT !.twice = TRUE]
              ELSE [fds EXCEPT !.listen = @ - 1]
    /\ sock' = [c \in Clients |->
                  IF \E i \in 1..Len(backlog) : backlog[i] = c
                  THEN Dropped(sock[c]) ELSE sock[c]]
    /\ backlog' = << >>
    /\ stp' = [stp EXCEPT !.pc = "joinAcceptor"]
    /\ UNCHANGED <<unitVars, ringVars, workload, dsc, hist, shmVars, cliVars, wrk,
                   con, acc, conn, conns, mutex, ntf>>

\* m_acceptThread.join()
StopJoinAcceptor ==
    /\ stp.pc = "joinAcceptor"
    /\ acc.pc = "done"
    /\ stp' = [stp EXCEPT !.pc = "lock"]
    /\ UNCHANGED <<unitVars, ringVars, workload, fds, dsc, hist, shmVars, sock, cliVars, srvVars,
                   backlog, con, acc, conn, conns, mutex, ntf>>

\* lock m_connectionsMutex; shutdown(c->socketFd, SHUT_RDWR) for every
\* connection
StopShutdown ==
    /\ stp.pc = "lock"
    /\ CanLock(mutex)
    /\ mutex' = "stop"
    /\ sock' = [c \in Clients |->
                  IF (\E i \in 1..Len(conns) : conns[i] = c) /\ conn[c].socketFd
                  THEN Dropped(sock[c]) ELSE sock[c]]
    /\ stp' = [stp EXCEPT !.pc = "join", !.at = 1]
    /\ UNCHANGED <<unitVars, ringVars, workload, fds, dsc, hist, shmVars, cliVars, srvVars,
                   backlog, con, acc, conn, conns, ntf>>

\* for every connection: thread.join(), closeConnection(); after the last
\* m_connections.clear(), unlock and return
StopJoin ==
    /\ stp.pc = "join"
    /\ IF stp.at > Len(conns)
       THEN /\ conns' = << >>
            /\ mutex' = "free"
            /\ stp' = [stp EXCEPT !.pc = "done", !.at = 0]
            /\ UNCHANGED <<conn, sock, fds>>
       ELSE /\ wrk[conns[stp.at]].pc = "done"
            /\ conn' = [conn EXCEPT ![conns[stp.at]] = NoConn]
            /\ sock' = [sock EXCEPT ![conns[stp.at]] = Dropped(@)]
            /\ fds' = CloseIf(conn[conns[stp.at]].socketFd,
                              CloseIf(conn[conns[stp.at]].shmFd, fds, "srvShm",
                                      conns[stp.at]),
                              "srvSock", conns[stp.at])
            /\ stp' = [stp EXCEPT !.at = @ + 1]
            /\ UNCHANGED <<conns, mutex>>
    /\ UNCHANGED <<unitVars, ringVars, workload, dsc, hist, shmVars, cliVars, srvVars,
                   backlog, con, acc, ntf>>

(***************************************************************************)
(* Calls against a connected client: N caller threads, the connection      *)
(* worker and the client's receiver; nobody stops or disconnects.          *)
(***************************************************************************)
InitCall ==
    /\ RingUnused
    /\ UnitUnused
    /\ workload \in {"echo", "mixed"}
    /\ InitConnected

NextCall ==
    \/ \E t \in Callers : CallBegin(t)
    \/ \E t \in Callers : CallHdrLoad(t)
    \/ \E t \in Callers : CallHdrStore(t)
    \/ \E t \in Callers : CallPayLoad(t)
    \/ \E t \in Callers : CallPayStore(t)
    \/ \E t \in Callers : CallInsert(t)
    \/ \E t \in Callers : CallSignal(t)
    \/ \E t \in Callers : CallWake(t)
    \/ \E t \in Callers : CallTimeout(t)
    \/ SrvLoop(CallClient)
    \/ SrvRecv(CallClient)
    \/ SrvDrain(CallClient)
    \/ SrvHandler(CallClient)
    \/ SrvRespHdrLoad(CallClient)
    \/ SrvRespHdrStore(CallClient)
    \/ SrvRespPayLoad(CallClient)
    \/ SrvRespPayStore(CallClient)
    \/ SrvSignal(CallClient)
    \/ CliLoop(CallClient)
    \/ CliRecv(CallClient)
    \/ CliDrain(CallClient)

SpecCall == InitCall /\ [][NextCall]_vars

(***************************************************************************)
(* C4: with one producer and one consumer interleaved at the granularity   *)
(* of the loads, memcpys and stores, the bytes returned by successful      *)
(* reads (and seen by successful peeks) are, position by position, the     *)
(* bytes given to successful writes: nothing lost, duplicated, reordered,  *)
(* or read before it was written.                                          *)
(***************************************************************************)
RingFifo ==
    /\ Len(got) <= Len(written)
    /\ \A i \in 1..Len(got) : got[i] # -1 => got[i] = written[i]
    /\ (cons.pc = "idle" /\ cons.ok /\ cons.op = "peek") =>
          /\ Len(got) + cons.len <= Len(written)
          /\ cons.dest = SubSeq(written, Len(got) + 1, Len(got) + cons.len)

\* the consumer has read back more bytes than the data array holds (the
\* ring has wrapped) while the producer is in the middle of a later write
RingFifoWitness ==
    /\ Len(got) > RSize
    /\ got[Len(got)] # -1
    /\ got[Len(got)] = written[Len(got)]
    /\ prod.pc = "copy1"
    /\ cons.pc = "idle" /\ cons.ok /\ cons.op = "read"

\* the producer takes the step that decides whether its write fits
WriteDecides == prod.pc = "loadTail" /\ prod' # prod

\* C14: RingBuffer::write with len greater than the free space returns false
\* and changes neither head, tail nor any byte of the data array; with len
\* less than or equal to the free space it returns true and advances head by
\* exactly len
WriteAllOrNothing ==
    [][/\ (prod.pc = "idle" /\ prod' # prod) => ring' = ring
       /\ WriteDecides =>
            IF ULt(RSize - (ring.head - ring.tail), Len(prod.src))
            THEN prod'.pc = "idle" /\ ~prod'.ok /\ ring' = ring
            ELSE prod'.pc = "copy1" /\ ring' = ring
       /\ (prod.pc \in {"copy1", "copy2"} /\ prod' # prod) =>
            /\ ring'.head = ring.head /\ ring'.tail = ring.tail
            /\ prod'.pc \in {"copy2", "store"}
       /\ (prod.pc = "store" /\ prod' # prod) =>
            /\ prod'.pc = "idle" /\ prod'.ok
            /\ ring'.head = ring.head + Len(prod.src)
            /\ ring'.tail = ring.tail]_vars

\* a write of more bytes than are free has just returned false on a ring
\* that has one byte free and has carried at least its capacity in data
WriteAllOrNothingWitness ==
    /\ prod.pc = "idle" /\ ~prod.ok /\ Len(prod.src) > 1
    /\ ring.head - ring.tail = RSize - 1
    /\ Len(written) >= RSize

\* C15: occupancy: after any sequence of write / read / peek / skip by one
\* producer and one consumer 0 <= head - tail <= capacity (as uint32), and
\* wherever neither side is inside an operation
\* readAvailable() + writeAvailable() == capacity
RingOccupancy ==
    /\ ~ULt(RSize, UsedBytes(ring.head, ring.tail))
    /\ ~ULt(UsedBytes(ring.head, ring.tail), 0)
    /\ UsedBytes(ring.head, ring.tail) \in 0..RSize
    /\ (prod.pc = "idle" /\ cons.pc = "idle") =>
          /\ readAvailable(ring) + writeAvailable(RSize, ring) = RSize
          /\ readAvailable(ring) \in 0..RSize

\* the ring is full, neither side is inside an operation, and head has
\* wrapped past 2^32 while tail has not
RingOccupancyWitness ==
    /\ prod.pc = "idle" /\ cons.pc = "idle"
    /\ readAvailable(ring) = RSize /\ writeAvailable(RSize, ring) = 0
    /\ ring.head >= 0 /\ ring.tail < 0
    /\ got # << >>


(***************************************************************************)
(* Claims about calls, checked under SpecCall                              *)
(***************************************************************************)
\* call number n of caller t has returned
Returned(t) == call[t].pc = "idle" /\ call[t].n > 0

\* what the test handler answers to an echo request
EchoOf(request) == toBytes(fromBytes(request) + 1)

\* the caller got the handler's answer to its own request
OwnAnswer(t) == call[t].ret = RPC_SUCCESS /\ call[t].resp = EchoOf(call[t].req)

\* C1: call correlation under concurrency: with the callers of one connected
\* client invoking call against the handler that echoes request + 1 (timeouts
\* that outlast the server, requests that fit the ring), every call that has
\* returned returned RPC_SUCCESS with the response computed from its own
\* request
CallCorrelation ==
    workload = "echo" => \A t \in Callers : Returned(t) => OwnAnswer(t)

\* C5: round-trip calls: with a single caller thread making back-to-back
\* calls (the other threads never call), no stop or disconnect, requests that
\* fit the ring and timeouts that expire only once server and receiver can
\* make no more progress, every returned call has the handler's status and
\* response for its own request
RoundTrip ==
    (workload = "echo" /\ \A u \in Callers \ {1} : call[u].n = 0) =>
        (Returned(1) => OwnAnswer(1))

\* C6: response matching: a call never returns the payload that belongs to a
\* different call: a caller that returned RPC_SUCCESS does not hold the
\* handler's answer to the request of another caller
ResponseMatching ==
    workload = "echo" =>
        \A t \in Callers : \A u \in Callers \ {t} :
            (Returned(t) /\ call[t].ret = RPC_SUCCESS /\ call[u].n > 0) =>
                call[t].resp # EchoOf(call[u].req)

\* the bytes of ring r from offset tail up to head are a concatenation of
\* complete frames: a 24-byte header followed by payloadBytes bytes, repeated
RECURSIVE WholeFrames(_, _)
WholeFrames(r, tail) ==
    LET used == r.head - tail
        h == HeaderOfBytes(ReadData(RingSize, r.data, tail, HeaderBytes))
    IN  IF used = 0 THEN TRUE
        ELSE IF used < HeaderBytes THEN FALSE
        ELSE IF h.payloadBytes < 0 \/ used < HeaderBytes + h.payloadBytes THEN FALSE
        ELSE WholeFrames(r, tail + HeaderBytes + h.payloadBytes)

\* a caller is between the first byte of its frame and the last
MidFrame(t) == call[t].pc \in {"hdr2", "pay1", "pay2"}

\* C2: no torn frame: a frame-sending operation places the full header and
\* payload or fails with head unchanged, so whenever no frame is being written
\* the bytes in the ring are a concatenation of complete frames.  Stated for
\* clientToServer with a single caller thread (the other threads never call).
NoTornFrame ==
    ((\A u \in Callers \ {1} : call[u].n = 0) /\ ~MidFrame(1)) =>
        WholeFrames(c2s[CallClient], c2s[CallClient].tail)

\* the callers that are inside RingBuffer::write on clientToServer: past its
\* loads of head and tail, before its store of head
Writers == {t \in Callers : call[t].pc \in {"hdr2", "pay2"}}

\* C3: single producer: at most one thread is executing RingBuffer::write on
\* clientToServer; two Client::call invocations never write it concurrently
SingleProducer == Cardinality(Writers) <= 1

\* the receiver of the calling client takes a frame from serverToClient
TakesFrame ==
    s2c'[CallClient].tail # s2c[CallClient].tail

\* the frame it takes is a RESPONSE for the seq of a call that timed out
LateResponse(f) ==
    /\ f.kind = "frame"
    /\ HasFlag(f.header.flags, FRAME_RESPONSE)
    /\ \E t \in Callers : /\ call[t].pc = "idle"
                          /\ call[t].ret = RPC_ERR_TIMEOUT
                          /\ call[t].seq = f.header.seq

\* the wait of caller t expires in this step
Expires(t) == call[t].pc = "wait" /\ ~call[t].done /\ call'[t].pc = "idle"

TimeoutStep ==
    /\ \A t \in Callers :
          Expires(t) =>
             /\ call'[t].ret = RPC_ERR_TIMEOUT
             /\ mpending'[CallClient] = mpending[CallClient] \ {call[t].seq}
    /\ LET f == TakeFrame(s2c[CallClient])
       IN  (TakesFrame /\ LateResponse(f)) =>
              /\ s2c'[CallClient].tail =
                    s2c[CallClient].tail + HeaderBytes + f.header.payloadBytes
              /\ call' = call

\* C7: timeout independence: a call whose wait expires removes its own entry
\* from the pending table and returns RPC_ERR_TIMEOUT; a RESPONSE frame that
\* arrives later for that seq is consumed from the ring and dropped, and the
\* done, status and response of every other pending call stay as they were
TimeoutIndependence == [][TimeoutStep]_vars

\* a late RESPONSE for a timed-out call is the next frame the receiver takes
\* while another call is waiting
TimeoutIndependenceWitness ==
    /\ rcv[CallClient] = "drain"
    /\ ~Wrecked(s2c[CallClient])
    /\ LateResponse(TakeFrame(s2c[CallClient]))
    /\ \E u \in Callers : call[u].pc = "wait" /\ ~call[u].done

(***************************************************************************)
(* Notification of K connecting clients: the service is started, every     *)
(* client connects through the handshake, one thread calls notify once.    *)
(***************************************************************************)
InitNotify ==
    /\ RingUnused
    /\ UnitUnused
    /\ workload = "notify"
    /\ c2s = [c \in Clients |-> EmptyRing]
    /\ s2c = [c \in Clients |-> EmptyRing]
    /\ sock = [c \in Clients |-> NoSock]
    /\ cli = [c \in Clients |-> NewClient]
    /\ mpending = [c \in Clients |-> {}]
    /\ rcv = [c \in Clients |-> "off"]
    /\ notified = [c \in Clients |-> << >>]
    /\ call = [t \in Callers |-> CallIdle]
    /\ srv = [running |-> TRUE, listenFd |-> TRUE, handler |-> TRUE]
    /\ wrk = [c \in Clients |-> WrkOff]
    /\ backlog = << >>
    /\ con = [c \in Clients |-> ConIdle]
    /\ acc = AccLoopTop
    /\ conn = [c \in Clients |-> NoConn]
    /\ conns = << >>
    /\ mutex = "free"
    /\ ntf = [n \in Notifiers |-> NtfIdle]
    /\ stp = StpIdle
    /\ dsc = DscIdle
    /\ hist = NoHistory
    /\ fds = FdsWith({})

NextNotify ==
    \/ \E c \in Clients : ConnSocket(c)
    \/ \E c \in Clients : ConnSendFd(c)
    \/ \E c \in Clients : ConnRecvAck(c)
    \/ AccLoop
    \/ AccAccept
    \/ AccHello
    \/ AccAck
    \/ AccStart
    \/ AccPublish
    \/ \E c \in Clients : SrvLoop(c)
    \/ \E c \in Clients : CliLoop(c)
    \/ \E c \in Clients : CliRecv(c)
    \/ \E c \in Clients : CliDrain(c)
    \/ \E n \in Notifiers : NtfBegin(n)
    \/ \E n \in Notifiers : NtfNext(n)
    \/ \E n \in Notifiers : NtfHdrLoad(n)
    \/ \E n \in Notifiers : NtfHdrStore(n)
    \/ \E n \in Notifiers : NtfPayLoad(n)
    \/ \E n \in Notifiers : NtfPayStore(n)
    \/ \E n \in Notifiers : NtfSignal(n)

SpecNotify == InitNotify /\ [][NextNotify]_vars

\* C8: notify fan-out: once all K clients have returned true from connect()
\* (their handlers installed), a Service::notify that returns RPC_SUCCESS
\* leads to exactly one invocation of each client's handler with the notifyId
\* and payload that were sent: when the notify has returned and no thread has
\* a step left to take, every client's handler has been invoked exactly once
NotifyFanOut ==
    (/\ ntf[1].pc = "done" /\ ntf[1].ret = RPC_SUCCESS
     /\ ntf[1].clients = Clients
     /\ Quiet) =>
        \A c \in Clients : notified[c] = << <<NotifyId, toBytes(NotifyValue)>> >>

(***************************************************************************)
(* Stopping the service: client 1 is connected and one of its threads      *)
(* makes a call, client 2 may connect, one thread calls Service::stop.     *)
(* The threads of the service and of the connected client keep running     *)
(* and a handler returns; whether and when a peer connects and sends its   *)
(* handshake message, a thread calls or stop is called is up to them.      *)
(***************************************************************************)
InitStop ==
    /\ RingUnused
    /\ UnitUnused
    /\ workload = "stop"
    /\ InitConnected

StopStep == StopListen \/ StopJoinAcceptor \/ StopShutdown \/ StopJoin

AcceptStep == AccLoop \/ AccAccept \/ AccHello \/ AccAck \/ AccStart \/ AccPublish

WorkerStep(c) ==
    \/ SrvLoop(c) \/ SrvRecv(c) \/ SrvDrain(c) \/ SrvHandler(c)
    \/ SrvRespHdrLoad(c) \/ SrvRespHdrStore(c)
    \/ SrvRespPayLoad(c) \/ SrvRespPayStore(c) \/ SrvSignal(c)

ReceiverStep(c) == CliLoop(c) \/ CliRecv(c) \/ CliDrain(c) \/ CliExit(c)

CallStep(t) ==
    \/ CallHdrLoad(t) \/ CallHdrStore(t) \/ CallPayLoad(t) \/ CallPayStore(t)
    \/ CallInsert(t) \/ CallSignal(t) \/ CallWake(t) \/ CallTimeout(t)

NextStop ==
    \/ StopBegin
    \/ StopStep
    \/ AcceptStep
    \/ \E c \in Clients : WorkerStep(c)
    \/ \E c \in Clients : ReceiverStep(c)
    \/ \E t \in Callers : CallBegin(t)
    \/ \E t \in Callers : CallStep(t)
    \/ \E c \in Clients : ConnSocket(c)
    \/ \E c \in Clients : ConnSendFd(c)
    \/ \E c \in Clients : ConnRecvAck(c)

\* the steps of the threads that are always scheduled.  Every thread makes
\* finitely many steps, so a behaviour can only end by taking no step at all:
\* it may do so only where none of these threads has a step to take
FairStep ==
    \/ StopStep
    \/ AcceptStep
    \/ \E c \in Clients : WorkerStep(c)
    \/ \E c \in Clients : ReceiverStep(c)
    \/ \E t \in Callers : CallStep(t)
    \/ \E c \in Clients : ConnRecvAck(c)

FairStop == WF_vars(FairStep)

SpecStop == InitStop /\ [][NextStop]_vars /\ FairStop

\* the state Service::stop leaves behind: acceptor and workers exited, the
\* listen fd closed, every connection unmapped and closed, the list empty
TornDown ==
    /\ ~srv.running /\ ~srv.listenFd
    /\ acc.pc = "done"
    /\ \A c \in Clients : wrk[c].pc \in {"off", "done"} /\ conn[c] = NoConn
    /\ conns = << >>
    /\ mutex = "free"

\* C9: Service::stop always terminates with full teardown: once a stop() of
\* the running service is under way (from any reachable state, including a
\* peer that has connected and not yet sent its handshake message, and a
\* worker inside a handler that returns), it eventually returns, and then
\* acceptor and workers have exited, all fds are closed, all regions unmapped
\* and the connection list is empty
StopTerminates == (stp.pc = "listen") ~> (stp.pc = "done" /\ TornDown)

\* a stop() that returns leaves everything torn down, and a second stop()
\* changes nothing
StopLeavesNothing == stp.pc = "done" => TornDown

\* the call of thread t is waiting for the response of a handler that has
\* not returned, and stop() has been invoked
PendingAtStop(t) ==
    /\ ~srv.running
    /\ call[t].pc = "wait" /\ ~call[t].done
    /\ wrk[CallClient].pc = "handler"
    /\ wrk[CallClient].hdr.seq = call[t].seq

\* the call of thread t has returned RPC_ERR_DISCONNECTED, or its own timeout
\* has expired
FailedByStop(t) ==
    /\ Returned(t)
    /\ call[t].ret \in {RPC_ERR_DISCONNECTED, RPC_ERR_TIMEOUT}

\* C10 as stated: if stop() is invoked while a call waits for a response
\* whose handler has not returned, the call returns RPC_ERR_DISCONNECTED
\* (unless its own timeout expires first)
PendingCallDisconnected == PendingAtStop(1) ~> FailedByStop(1)

\* stop() has shut down the control socket of the calling client while its
\* receiver is blocked in recvSignalByte with no signal byte queued and the
\* call of thread t is waiting and not done
ShutWhilePending(t) ==
    /\ stp.pc \in {"join", "done"}
    /\ sock[CallClient].shut /\ sock[CallClient].toCli = << >>
    /\ rcv[CallClient] = "recv"
    /\ call[t].pc = "wait" /\ ~call[t].done

\* C10, amended: once stop() has shut down the control socket with the call
\* still pending, the receiver blocked and no signal byte queued, the
\* receiver sees end of file, exits, and the call returns
\* RPC_ERR_DISCONNECTED, unless its own timeout expires first
ShutdownFailsPending == ShutWhilePending(1) ~> FailedByStop(1)

\* the receiver has exited on end of file and the call has returned
\* RPC_ERR_DISCONNECTED while the worker is still inside the handler
ShutdownFailsPendingWitness ==
    /\ stp.pc = "join"
    /\ wrk[CallClient].pc = "handler"
    /\ rcv[CallClient] = "done"
    /\ Returned(1) /\ call[1].ret = RPC_ERR_DISCONNECTED

(***************************************************************************)
(* Client::disconnect against calls in progress: the caller threads, the   *)
(* connection worker and the receiver of client 1, and one thread that     *)
(* calls disconnect() on that client.                                      *)
(***************************************************************************)
InitDisconnect ==
    /\ RingUnused
    /\ UnitUnused
    /\ workload = "disconnect"
    /\ InitConnected

NextDisconnect ==
    \/ \E t \in Callers : CallBegin(t)
    \/ \E t \in Callers : CallHdrLoad(t)
    \/ \E t \in Callers : CallHdrStore(t)
    \/ \E t \in Callers : CallPayLoad(t)
    \/ \E t \in Callers : CallPayStore(t)
    \/ \E t \in Callers : CallFault(t)
    \/ \E t \in Callers : CallInsert(t)
    \/ \E t \in Callers : CallSignal(t)
    \/ \E t \in Callers : CallWake(t)
    \/ \E t \in Callers : CallTimeout(t)
    \/ SrvLoop(CallClient)
    \/ SrvRecv(CallClient)
    \/ SrvDrain(CallClient)
    \/ SrvHandler(CallClient)
    \/ SrvRespHdrLoad(CallClient)
    \/ SrvRespHdrStore(CallClient)
    \/ SrvRespPayLoad(CallClient)
    \/ SrvRespPayStore(CallClient)
    \/ SrvSignal(CallClient)
    \/ CliLoop(CallClient)
    \/ CliRecv(CallClient)
    \/ CliDrain(CallClient)
    \/ CliExit(CallClient)
    \/ DiscBegin(CallClient)
    \/ DiscShutdown(CallClient)
    \/ DiscJoin(CallClient)
    \/ DiscFail(CallClient)
    \/ DiscRelease(CallClient)

SpecDisconnect == InitDisconnect /\ [][NextDisconnect]_vars

\* the call of caller t that was waiting when disconnect() was invoked has
\* returned
ReturnedAfterDisconnect(t) ==
    /\ \E w \in dsc[CallClient].waiting : w[1] = t /\ w[2] = call[t].seq
    /\ Returned(t)

\* C11: every call that is still waiting on its pending entry when
\* disconnect() is invoked on a running client returns RPC_ERR_STOPPED
\* (unless its response or its own timeout comes first)
DisconnectStopsPending ==
    \A t \in Callers :
        ReturnedAfterDisconnect(t) =>
            call[t].ret \in {RPC_ERR_STOPPED, RPC_SUCCESS, RPC_ERR_TIMEOUT}

\* C12: whenever Client::call has returned, with any status, the pending
\* table holds no entry for the seq that call allocated
PendingLifetime ==
    \A t \in Callers : Returned(t) => call[t].seq \notin mpending[CallClient]

(***************************************************************************)
(* Claims about the handshake, checked under SpecNotify                    *)
(***************************************************************************)
\* the acceptor answers the handshake message of a peer that announced a
\* version other than PROTOCOL_VERSION
RejectStep ==
    /\ acc.pc = "ack" /\ acc.version # PROTOCOL_VERSION
    /\ acc' # acc

\* connect() of client c returns after it announced a version other than
\* PROTOCOL_VERSION
MismatchReturn(c) ==
    /\ con[c].pc = "ack" /\ con[c].version # PROTOCOL_VERSION
    /\ con'[c].pc = "done"

\* C13: version mismatch: the server replies with ACK byte 0, closes the
\* received shm fd and the socket and adds no Connection to its list; the
\* client's connect returns false with its region unmapped, both of its fds
\* closed and running still false
VersionMismatch ==
    [][/\ RejectStep =>
            /\ sock'[acc.peer].toCli = Append(sock[acc.peer].toCli, 0)
            /\ sock'[acc.peer].shut
            /\ conn'[acc.peer] = NoConn
            /\ conns' = conns
            /\ acc'.pc = "loop"
       /\ \A c \in Clients :
            /\ MismatchReturn(c) =>
                  /\ ~con'[c].ret
                  /\ cli'[c] = Released(cli[c])
                  /\ ~cli'[c].running /\ ~cli'[c].region
                  /\ ~cli'[c].socketFd /\ ~cli'[c].shmFd
                  /\ rcv'[c] = "off"
            /\ con'[c].version # PROTOCOL_VERSION =>
                  \A i \in 1..Len(conns') : conns'[i] # c]_vars

\* a client announced a newer version, the acceptor has rejected it and its
\* connect() has returned false
VersionMismatchWitness ==
    \E c \in Clients :
        /\ con[c].pc = "done" /\ con[c].version = PROTOCOL_VERSION + 1
        /\ ~con[c].ret
        /\ sock[c].shut /\ sock[c].toCli = << >>
        /\ conn[c] = NoConn
        /\ ~cli[c].region /\ ~cli[c].socketFd /\ ~cli[c].shmFd

(***************************************************************************)
(* One caller thread that makes up to MaxDrainCalls calls one after the    *)
(* other (requests of both sizes, timeouts of both kinds) against the      *)
(* connection worker and the client's receiver: a single producer per ring.*)
(***************************************************************************)
InitDrain ==
    /\ RingUnused
    /\ UnitUnused
    /\ workload = "drain"
    /\ InitConnected

SpecDrain == InitDrain /\ [][NextCall]_vars

\* the elements of sequence q
Range(q) == {q[i] : i \in 1..Len(q)}

\* C16: no stranded frame: a receiver never stays blocked in recvSignalByte
\* while its ring holds a complete frame and no signal byte is outstanding
\* or about to be sent; every complete, signalled frame is dispatched while
\* the connection stays up.  Where no thread has a step left to take (every
\* signal sent and consumed, both receivers blocked), neither ring holds a
\* complete frame at its tail and every request frame written has been
\* handed to the handler
NoStrandedFrame ==
    (Quiet /\ ~sock[CallClient].shut) =>
        /\ TakeFrame(c2s[CallClient]).kind = "none"
        /\ TakeFrame(s2c[CallClient]).kind = "none"
        /\ Range(hist.written) \subseteq Range(hist.handled)

(***************************************************************************)
(* Claims about the order of requests and responses on one connection      *)
(***************************************************************************)
\* sequence p is the beginning of sequence q
IsPrefix(p, q) == Len(p) <= Len(q) /\ SubSeq(q, 1, Len(p)) = p

\* the elements of p occur in q in the same order
RECURSIVE InOrder(_, _)
InOrder(p, q) ==
    IF p = << >> THEN TRUE
    ELSE IF q = << >> THEN FALSE
    ELSE IF Head(p) = Head(q) THEN InOrder(Tail(p), Tail(q))
    ELSE InOrder(p, Tail(q))

\* C17: per-connection ordering: the request handler is invoked for the
\* REQUEST frames of one connection one at a time and in exactly the order
\* in which the frames were written into clientToServer, and the RESPONSE
\* frames are written into serverToClient in that same order
RequestOrder ==
    /\ IsPrefix(hist.handled, hist.written)
    /\ InOrder(hist.answered, hist.handled)

\* the same with one caller thread: the ring has a single producer
RequestOrderOneCaller ==
    workload = "drain" => RequestOrder

(***************************************************************************)
(* Notifications to two connected clients: both connections are in          *)
(* m_connections, their receivers and workers wait for a signal byte;       *)
(* either two threads call Service::notify, one of them several times     *)
(* ("broadcast"), or one thread calls it once while another calls          *)
(* Client::disconnect on one of the clients ("peerdown"), or one thread     *)
(* calls it once while a thread of client 1 makes a call that the          *)
(* connection worker answers ("answer").                                    *)
(***************************************************************************)
InitBroadcast ==
    /\ RingUnused
    /\ UnitUnused
    /\ workload \in {"broadcast", "peerdown", "answer"}
    /\ c2s = [c \in Clients |-> EmptyRing]
    /\ s2c = [c \in Clients |-> EmptyRing]
    /\ sock = [c \in Clients |-> OpenSock]
    /\ cli = [c \in Clients |-> ConnectedClient]
    /\ mpending = [c \in Clients |-> {}]
    /\ rcv = [c \in Clients |-> "recv"]
    /\ notified = [c \in Clients |-> << >>]
    /\ call = [t \in Callers |-> CallIdle]
    /\ srv = [running |-> TRUE, listenFd |-> TRUE, handler |-> TRUE]
    /\ wrk = [c \in Clients |-> [WrkOff EXCEPT !.pc = "recv"]]
    /\ backlog = << >>
    /\ con = [c \in Clients |-> ConDone]
    /\ acc = [AccLoopTop EXCEPT !.pc = "accept"]
    /\ conn = [c \in Clients |-> OpenConn]
    /\ conns = [i \in 1..NClients |-> i]
    /\ mutex = "free"
    /\ ntf = [n \in Notifiers |-> NtfIdle]
    /\ stp = StpIdle
    /\ dsc = DscIdle
    /\ hist = NoHistory
    /\ fds = FdsWith(Clients)

NextBroadcast ==
    \/ \E t \in Callers : CallBegin(t)
    \/ \E t \in Callers : CallHdrLoad(t)
    \/ \E t \in Callers : CallHdrStore(t)
    \/ \E t \in Callers : CallPayLoad(t)
    \/ \E t \in Callers : CallPayStore(t)
    \/ \E t \in Callers : CallInsert(t)
    \/ \E t \in Callers : CallSignal(t)
    \/ \E t \in Callers : CallWake(t)
    \/ SrvDrain(CallClient)
    \/ SrvHandler(CallClient)
    \/ SrvRespHdrLoad(CallClient)
    \/ SrvRespHdrStore(CallClient)
    \/ SrvRespPayLoad(CallClient)
    \/ SrvRespPayStore(CallClient)
    \/ SrvSignal(CallClient)
    \/ \E n \in Notifiers : NtfBegin(n)
    \/ \E n \in Notifiers : NtfNext(n)
    \/ \E n \in Notifiers : NtfHdrLoad(n)
    \/ \E n \in Notifiers : NtfHdrStore(n)
    \/ \E n \in Notifiers : NtfPayLoad(n)
    \/ \E n \in Notifiers : NtfPayStore(n)
    \/ \E n \in Notifiers : NtfSignal(n)
    \/ \E c \in Clients : CliLoop(c)
    \/ \E c \in Clients : CliRecv(c)
    \/ \E c \in Clients : CliDrain(c)
    \/ \E c \in Clients : CliExit(c)
    \/ \E c \in Clients : SrvLoop(c)
    \/ \E c \in Clients : SrvRecv(c)
    \/ \E c \in Clients : workload = "peerdown" /\ DiscBegin(c)
    \/ \E c \in Clients : DiscShutdown(c)
    \/ \E c \in Clients : DiscJoin(c)
    \/ \E c \in Clients : DiscFail(c)
    \/ \E c \in Clients : DiscRelease(c)

SpecBroadcast == InitBroadcast /\ [][NextBroadcast]_vars

\* the frame that ends at the head of ring r when its payload has len bytes
LastFrame(r, len) == TakeFrame([r EXCEPT !.tail = r.head - HeaderBytes - len])

\* the connection a notify call of thread n is working on
NtfConn(n) == conns[ntf[n].at]

\* the step in which thread n completes the second write of its frame: the
\* ring then ends with the NOTIFY frame of the call
NotifyWrites(n) ==
    (ntf[n].pc = "p2" /\ ntf'[n].pc = "signal") =>
        LET f == LastFrame(s2c'[NtfConn(n)], Len(toBytes(NotifyValue)))
        IN  /\ f.kind = "frame"
            /\ f.header.flags = FRAME_NOTIFY
            /\ f.header.seq = 0
            /\ f.header.messageId = ntf[n].id
            /\ f.payload = toBytes(NotifyValue)

\* the step in which the notify call of thread n returns
NotifyReturns(n) ==
    (ntf[n].pc \notin {"idle", "done"} /\ ntf'[n].pc = "done") =>
        /\ ntf'[n].ret \in {RPC_SUCCESS, RPC_ERR_RING_FULL, RPC_ERR_DISCONNECTED}
        /\ ntf'[n].ret = RPC_SUCCESS => ntf'[n].sent = conns
        /\ ntf'[n].ret = RPC_ERR_RING_FULL =>
              \/ ntf[n].pc = "h1" /\ ~CanWrite(s2c[NtfConn(n)], HeaderBytes)
              \/ ntf[n].pc = "p1" /\ ~CanWrite(s2c[NtfConn(n)], Len(toBytes(NotifyValue)))
        /\ ntf'[n].ret = RPC_ERR_DISCONNECTED =>
              /\ ntf[n].pc = "signal"
              /\ ~CanSend(conn[NtfConn(n)].socketFd, sock[NtfConn(n)])

\* C18: Service::notify returns RPC_SUCCESS only if a complete NOTIFY frame
\* (flags = NOTIFY, seq = 0, messageId = notifyId, plus the payload) was
\* written into serverToClient of every connection of the list and a signal
\* byte was sent on each; it returns RPC_ERR_RING_FULL when a ring lacks space
\* and RPC_ERR_DISCONNECTED when a signal send fails
NotifyResult ==
    [][\A n \in Notifiers : NotifyWrites(n) /\ NotifyReturns(n)]_vars

\* the return codes alone: what C18 says of the three results without the
\* content of the rings
NotifyReturnCodes == [][\A n \in Notifiers : NotifyReturns(n)]_vars

\* C19: a Service::notify call writes the NOTIFY frame and sends the signal to
\* every connection whose peer is connected at the time of the call (and stays
\* so), even when another connection of the list belongs to a peer that has
\* disconnected or has a full ring
BestEffortBroadcast ==
    \A n \in Notifiers :
        ntf[n].pc = "done" =>
            \A c \in ntf[n].live : ~sock[c].shut => c \in Range(ntf[n].sent)

\* the same, told apart by what stopped the call: a peer that had disconnected
\* before the call
BroadcastPastDisconnected ==
    \A n \in Notifiers :
        (/\ ntf[n].pc = "done" /\ ntf[n].ret = RPC_ERR_DISCONNECTED
         /\ NtfConn(n) \notin ntf[n].live) =>
            \A c \in ntf[n].live : ~sock[c].shut => c \in Range(ntf[n].sent)

\* the same, told apart by what stopped the call: a full ring
BroadcastPastFullRing ==
    \A n \in Notifiers :
        (ntf[n].pc = "done" /\ ntf[n].ret = RPC_ERR_RING_FULL) =>
            \A c \in ntf[n].live : ~sock[c].shut => c \in Range(ntf[n].sent)

\* the notifyIds handed to the notify handler of client c, in order
Received(c) == [i \in 1..Len(notified[c]) |-> notified[c][i][1]]

\* C20: for any two Service::notify calls, also calls made concurrently from
\* different threads, every connection that receives both receives them in
\* the same relative order, and within one call the connections are written
\* in list order
NotifySerialized ==
    /\ \A c, d \in Clients :
          \A i, j \in 1..Len(notified[c]) :
              \A k, l \in 1..Len(notified[d]) :
                  (/\ i < j
                   /\ Received(c)[i] = Received(d)[k]
                   /\ Received(c)[j] = Received(d)[l]) => k < l
    /\ \A n \in Notifiers : IsPrefix(ntf[n].sent, conns)

\* both clients have received a notification of each of the two threads, that
\* of thread 2 first
NotifySerializedWitness ==
    \A c \in Clients :
        /\ Len(notified[c]) >= 2
        /\ Received(c)[1] = NotifyIdOf(2, 1)
        /\ Received(c)[2] = NotifyIdOf(1, 1)

(***************************************************************************)
(* The client after its receiver has exited on end of file                  *)
(***************************************************************************)
\* the receiver of client c has left its loop because recvSignalByte returned
\* an error or end of file (no disconnect() was called on the client)
ReceiverGone(c) == rcv[c] = "done" /\ dsc[c].pc = "idle"

\* the step in which caller t enters Client::call
CallEnters(t) == call[t].pc = "idle" /\ call'[t].n = call[t].n + 1

\* C21: after the client's receiver has exited because the signal channel
\* returned an error or end of file, the calls that were pending have been
\* failed with RPC_ERR_DISCONNECTED and the client is not running, so a call
\* made afterwards returns RPC_ERR_DISCONNECTED at its first check, without
\* allocating a seq or writing to the ring
TransportFatal ==
    [][\A t \in Callers :
          (ReceiverGone(CallClient) /\ CallEnters(t)) =>
              /\ call'[t].pc = "idle"
              /\ call'[t].ret = RPC_ERR_DISCONNECTED
              /\ cli'[CallClient].nextSeq = cli[CallClient].nextSeq]_vars

\* the other half of C21 alone: no call is left waiting, not yet failed, once
\* the receiver has exited
PendingFailedAtExit ==
    ReceiverGone(CallClient) =>
        \A t \in Callers :
            (call[t].pc = "wait" /\ call[t].seq \in mpending[CallClient]) =>
                call[t].done

(***************************************************************************)
(* The fds over connect / disconnect / accept / stop: the service has       *)
(* started; one client calls connect() and disconnect() in any order, up    *)
(* to MaxConnects and MaxDisconnects times, with the service's version or   *)
(* a newer one; mmap may fail on either side; Service::stop is called up    *)
(* to MaxStops times.                                                       *)
(***************************************************************************)
InitFds ==
    /\ RingUnused
    /\ UnitUnused
    /\ workload = "fds"
    /\ c2s = [c \in Clients |-> EmptyRing]
    /\ s2c = [c \in Clients |-> EmptyRing]
    /\ sock = [c \in Clients |-> NoSock]
    /\ cli = [c \in Clients |-> NewClient]
    /\ mpending = [c \in Clients |-> {}]
    /\ rcv = [c \in Clients |-> "off"]
    /\ notified = [c \in Clients |-> << >>]
    /\ call = [t \in Callers |-> CallIdle]
    /\ srv = [running |-> TRUE, listenFd |-> TRUE, handler |-> TRUE]
    /\ wrk = [c \in Clients |-> WrkOff]
    /\ backlog = << >>
    /\ con = [c \in Clients |-> ConIdle]
    /\ acc = AccLoopTop
    /\ conn = [c \in Clients |-> NoConn]
    /\ conns = << >>
    /\ mutex = "free"
    /\ ntf = [n \in Notifiers |-> NtfIdle]
    /\ stp = StpIdle
    /\ dsc = DscIdle
    /\ hist = NoHistory
    /\ fds = FdsWith({})

NextFds ==
    \/ \E c \in Clients : ConnSocket(c)
    \/ \E c \in Clients : ConnSendFd(c)
    \/ \E c \in Clients : ConnRecvAck(c)
    \/ AcceptStep
    \/ \E c \in Clients : SrvLoop(c)
    \/ \E c \in Clients : SrvRecv(c)
    \/ \E c \in Clients : CliLoop(c)
    \/ \E c \in Clients : CliRecv(c)
    \/ \E c \in Clients : CliExit(c)
    \/ \E c \in Clients : DiscBegin(c)
    \/ \E c \in Clients : DiscShutdown(c)
    \/ \E c \in Clients : DiscJoin(c)
    \/ \E c \in Clients : DiscFail(c)
    \/ \E c \in Clients : DiscRelease(c)
    \/ StopBegin
    \/ StopStep

SpecFds == InitFds /\ [][NextFds]_vars

\* no thread is in connect() or disconnect() on client c, the last of them
\* has left the client not running: its teardown has returned
ClientTornDown(c) ==
    /\ fds.connects[c] > 0
    /\ dsc[c].pc = "done"
    /\ con[c].pc \in {"idle", "done"}
    /\ ~cli[c].running

\* C22: each fd is closed exactly once: over any sequence of connect and
\* disconnect on a client and of accept and stop on the service (failed
\* handshakes, mmap failure and repeated stop / disconnect included) no
\* control socket, shm or listen fd is closed twice, and none that was opened
\* or received remains open after the matching teardown has returned
FdsClosedOnce ==
    /\ ~fds.twice
    /\ \A c \in Clients :
          ClientTornDown(c) => fds.cliSock[c] = 0 /\ fds.cliShm[c] = 0
    /\ stp.pc = "done" =>
          /\ fds.listen = 0
          /\ \A c \in Clients : fds.srvSock[c] = 0 /\ fds.srvShm[c] = 0

\* the parts of C22 one by one: no fd is closed twice
NoFdClosedTwice == ~fds.twice

\* the service's fds are closed when stop() has returned
ServiceFdsClosed ==
    stp.pc = "done" =>
        /\ fds.listen = 0
        /\ \A c \in Clients : fds.srvSock[c] = 0 /\ fds.srvShm[c] = 0

(***************************************************************************)
(* Client::disconnect called again                                          *)
(***************************************************************************)
\* the step in which a thread calls disconnect() on client c
DisconnectCalled(c) == fds'.disconnects[c] = fds.disconnects[c] + 1

\* the step in which disconnect() on client c returns
DisconnectReturns(c) ==
    \/ dsc[c].pc = "release" /\ dsc'[c].pc = "done"
    \/ DisconnectCalled(c) /\ dsc'[c].pc = "done"

\* not running, region null, both fds -1
Disconnected(client) ==
    /\ ~client.running /\ ~client.region
    /\ ~client.socketFd /\ ~client.shmFd

InitHandler ==
    /\ RingUnused
    /\ UnitUnused
    /\ workload \in {"status", "nohandler"}
    /\ InitConnected

SpecHandler == InitHandler /\ [][NextCall]_vars

\* what the handler step made of the request with this seq
OutcomeOf(seq) ==
    LET i == CHOOSE i \in 1..Len(hist.out) : hist.out[i].seq = seq
    IN  hist.out[i]

\* thread t's call wakes on its completed pending entry and returns
CallWakes(t) ==
    /\ call[t].pc = "wait"
    /\ call[t].done
    /\ call'[t].pc = "idle"
    /\ \E i \in 1..Len(hist.out) : hist.out[i].seq = call[t].seq

\* a call that wakes on its RESPONSE frame returns the handler's status,
\* whichever 32-bit value it is
CallDeliversStatus ==
    [][\A t \in Callers :
          CallWakes(t) => call'[t].ret = OutcomeOf(call[t].seq).status]_vars

\* C24: a call that is completed by its RESPONSE frame returns exactly the
\* status the handler returned, and the caller's response buffer then holds
\* the payload the handler produced (the payload of that frame)
CallDelivers ==
    [][\A t \in Callers :
          CallWakes(t) =>
              /\ call'[t].ret = OutcomeOf(call[t].seq).status
              /\ call'[t].resp = OutcomeOf(call[t].seq).response]_vars

\* a call returned a handler-defined status with the payload
CallDeliversWitness ==
    \E t \in Callers :
        /\ Returned(t)
        /\ call[t].ret = 2147483647
        /\ call[t].response # << >>

\* the bytes thread t's call is about to write: the header, then the request
CallNeeds(t) == IF call[t].pc = "hdr1" THEN HeaderBytes ELSE Len(call[t].req)

\* thread t's call runs the space check of one of its two writes and
\* clientToServer lacks the space
CallFindsRingFull(t) ==
    /\ call[t].pc \in {"hdr1", "pay1"}
    /\ call'[t] # call[t]
    /\ cli[CallClient].region
    /\ ~WriteFits(RingSize, c2s[CallClient].head, c2s[CallClient].tail,
                  CallNeeds(t))

\* C25: when clientToServer lacks the space for the header or for the payload
\* of the request, call returns RPC_ERR_RING_FULL in that step, its seq is not
\* in the pending table, and neither the table nor the control socket changes
RingFullOnCall ==
    [][\A t \in Callers :
          CallFindsRingFull(t) =>
              /\ call'[t].pc = "idle"
              /\ call'[t].ret = RPC_ERR_RING_FULL
              /\ call[t].seq \notin mpending'[CallClient]
              /\ mpending' = mpending
              /\ sock' = sock]_vars

\* a call has returned RPC_ERR_RING_FULL, nothing is pending for its seq and
\* the server has not been signalled
RingFullOnCallWitness ==
    \E t \in Callers :
        /\ Returned(t)
        /\ call[t].ret = RPC_ERR_RING_FULL
        /\ call[t].seq \notin mpending[CallClient]
        /\ sock[CallClient].toSrv = << >>

\* every call that returned RPC_ERR_RING_FULL left no pending entry
RingFullLeavesNoEntry ==
    \A t \in Callers :
        (Returned(t) /\ call[t].ret = RPC_ERR_RING_FULL) =>
            call[t].seq \notin mpending[CallClient]

(***************************************************************************)
(* The frame codec on its own: a header is encoded, and decodeFrameHeader  *)
(* is applied to the 24 bytes with some len.  A uint32_t field is held as  *)
(* the integer with its bit pattern (top bit set: negative), a uint16_t    *)
(* field as its value.                                                      *)
(***************************************************************************)
\* values of the uint16_t fields (version, flags) and of the uint32_t fields
Words16 == {0, 1, 258, 65535}
Words32 == {0, 16909060, 2147483647, -1}

\* the len handed to decodeFrameHeader
DecodeLens == {0, 1, HeaderBytes - 1, HeaderBytes, HeaderBytes + 1}

CodecIdle(h) == [pc |-> "header", h |-> h, bytes |-> << >>, len |-> 0,
                 ok |-> FALSE, out |-> NoHeader]

InitCodec ==
    /\ RingUnused
    /\ RpcUnused
    /\ LoopUnused
    /\ \E version \in Words16, flags \in Words16, serviceId \in Words32,
          messageId \in {0, 16909060}, seq \in {1, -1},
          payloadBytes \in {0, -1}, aux \in Words32 \cup {RPC_ERR_STOPPED} :
          codec = CodecIdle(FrameHeader(version, flags, serviceId, messageId,
                                        seq, payloadBytes, aux))

\* encoded = encodeFrameHeader(h)
Encode ==
    /\ codec.pc = "header"
    /\ codec' = [codec EXCEPT !.pc = "encoded", !.bytes = encodeFrameHeader(codec.h)]
    /\ UNCHANGED <<ringVars, rpcVars, loopVars>>

\* ok = decodeFrameHeader(encoded.data(), len, &out); out is written only
\* when the call returns true
Decode ==
    /\ codec.pc = "encoded"
    /\ \E len \in DecodeLens :
          LET d == decodeFrameHeader(codec.bytes, len)
          IN  codec' = [codec EXCEPT !.pc = "decoded", !.len = len, !.ok = d.ok,
                                     !.out = IF d.ok THEN d.header ELSE @]
    /\ UNCHANGED <<ringVars, rpcVars, loopVars>>

NextCodec == Encode \/ Decode

SpecCodec == InitCodec /\ [][NextCodec]_vars

\* C27: the encoding of a header has 24 bytes; decoding it with len >= 24
\* returns true and yields the header again in all seven fields; decoding
\* with any len < 24 returns false
FrameCodecRoundTrip ==
    /\ codec.pc # "header" => Len(codec.bytes) = HeaderBytes
    /\ codec.pc = "decoded" =>
          /\ codec.len < HeaderBytes => ~codec.ok
          /\ codec.len >= HeaderBytes =>
                /\ codec.ok
                /\ codec.out.version = codec.h.version
                /\ codec.out.flags = codec.h.flags
                /\ codec.out.serviceId = codec.h.serviceId
                /\ codec.out.messageId = codec.h.messageId
                /\ codec.out.seq = codec.h.seq
                /\ codec.out.payloadBytes = codec.h.payloadBytes
                /\ codec.out.aux = codec.h.aux

\* a header with multi-byte values in every field, a negative status in aux,
\* has been decoded from its encoding with len = 24
FrameCodecRoundTripWitness ==
    /\ codec.pc = "decoded"
    /\ codec.len = HeaderBytes
    /\ codec.ok
    /\ codec.h = FrameHeader(258, 65535, 16909060, 16909060, -1, -1,
                             RPC_ERR_STOPPED)
    /\ codec.out = codec.h

\* the worker of connection c is between the handler step and its return to
\* the drain loop: it is writing, or has written, a RESPONSE
Responding(c) == wrk[c].pc \in {"rh1", "rh2", "rp1", "rp2", "signal"}

\* the RESPONSE the worker of connection c builds for the REQUEST it took
\* carries the seq of the REQUEST, RPC_ERR_INVALID_METHOD in aux and no payload
RefusesRequest(c) ==
    LET h == HeaderOfBytes(wrk[c].encoded)
    IN  /\ h.flags = FRAME_RESPONSE
        /\ h.seq = wrk[c].hdr.seq
        /\ h.aux = RPC_ERR_INVALID_METHOD
        /\ h.payloadBytes = 0
        /\ wrk[c].response = << >>

\* while no handler is installed, every REQUEST the server takes is answered
\* with such a RESPONSE, and the frame is written to serverToClient
NoHandlerResponse ==
    ~srv.handler =>
        LET c == CallClient
        IN  /\ Responding(c) => RefusesRequest(c)
            /\ wrk[c].pc = "signal" =>
                  LET f == LastFrame(s2c[c], 0)
                  IN  /\ f.kind = "frame"
                      /\ f.header = HeaderOfBytes(wrk[c].encoded)
                      /\ f.payload = << >>
            /\ ~Responding(c) /\ wrk[c].pc # "handler" =>
                  hist.answered = hist.handled

\* C26: while the service has no request handler, every REQUEST it receives
\* is answered with a RESPONSE of the same seq, aux = RPC_ERR_INVALID_METHOD
\* and an empty payload, and every call that has returned returned
\* RPC_ERR_INVALID_METHOD
NoHandlerInstalled ==
    /\ NoHandlerResponse
    /\ ~srv.handler =>
          \A t \in Callers : Returned(t) => call[t].ret = RPC_ERR_INVALID_METHOD

(***************************************************************************)
(* RunLoop / EventDispatcher: run(), stop(), runOnThread() / post(),       *)
(* wakeup() and one registered fd.  One thread calls run() (again after it *)
(* has returned); the threads of Posters post callables, call stop() and   *)
(* make the registered fd readable.  A callable is an id; the callables of *)
(* loop.stoppers, and the fd callback if loop.cbStops, call stop().        *)
(***************************************************************************)
Posters == 1..NPosters
Callables == 1..MaxPosts

\* a push at the front, and a wakeup that writes nothing
MutEnqueue(queue, fn) == <<fn>> \o queue
MutWakeup(pipe) == pipe

\* m_postQueue.push_back(fn)
Enqueue(queue, fn) == Append(queue, fn)

\* write(m_wakeupFd[1], &byte, 1): one more byte in the pipe
Wakeup(pipe) == pipe + 1

\* the events epoll_wait reports: the wakeup pipe and the registered fd,
\* each if readable
ReadyEvents == (IF loop.pipe > 0 THEN {"wakeup"} ELSE {})
                 \cup (IF loop.inEpoll /\ loop.fdReady > 0 THEN {"fd"} ELSE {})

\* a lookup that keeps m_fdMutex locked
MutUnlock(holder) == holder

\* the end of the scope of std::lock_guard lock(m_fdMutex)
Unlock(holder) == "free"

RunOut == [pc |-> "out", n |-> 0, batch |-> << >>, events |-> {}, back |-> "out",
           cb |-> FALSE, late |-> FALSE]
ExtIdle == [pc |-> "idle"]
NoTrace == [completed |-> << >>, started |-> << >>, finished |-> << >>,
            posts |-> 0, stops |-> 0, sent |-> 0, due |-> {}, owed |-> {},
            by |-> << >>, fired |-> 0, removes |-> 0, rets |-> << >>,
            removed |-> FALSE]

\* what the other threads do in all: in scenario "stop" they call stop()
\* and post one callable; in scenario "post" they post the callables and
\* call stop() once
PostBudget == IF loop.scenario = "post" THEN MaxPosts ELSE 1
StopBudget == IF loop.scenario = "stop" THEN MaxLoopStops ELSE 1
\* in scenario "remove" one more byte reaches the fd, after the first
FdBudget == IF loop.scenario = "remove" THEN MaxFdBytes + 1 ELSE MaxFdBytes

\* a run loop nobody has used, in the given scenario
\* (the fd has been registered with addFd: it is in the epoll set and in
\* m_fdEntries)
LoopIdle(scenario, stoppers, cbStops) ==
    [running |-> FALSE, stopRequested |-> FALSE, postQueue |-> << >>,
     pipe |-> 0, fdReady |-> 0, scenario |-> scenario, stoppers |-> stoppers,
     cbStops |-> cbStops, cbRemoves |-> FALSE, inEpoll |-> TRUE,
     fdEntry |-> TRUE, fdMutex |-> "free"]

InitStopping ==
    /\ RingUnused
    /\ RpcUnused
    /\ codec = << >>
    /\ \E stoppers \in SUBSET {1}, cbStops \in BOOLEAN :
          loop = LoopIdle("stop", stoppers, cbStops)
    /\ run = RunOut
    /\ ext = [t \in Posters |-> ExtIdle]
    /\ trace = NoTrace

InitPosting ==
    /\ RingUnused
    /\ RpcUnused
    /\ codec = << >>
    /\ \E stoppers \in SUBSET Callables :
          /\ Cardinality(stoppers) <= 1
          /\ loop = LoopIdle("post", stoppers, FALSE)
    /\ run = RunOut
    /\ ext = [t \in Posters |-> ExtIdle]
    /\ trace = NoTrace

\* run(): m_running.store(true)
RunBegin ==
    /\ run.pc = "out"
    /\ run.n < MaxRuns
    /\ run' = [run EXCEPT !.pc = "check", !.n = @ + 1]
    /\ loop' = [loop EXCEPT !.running = TRUE]
    /\ UNCHANGED <<ringVars, rpcVars, codec, ext, trace>>

\* while (!m_stopRequested.load())
RunCheck ==
    /\ run.pc = "check"
    /\ run' = [run EXCEPT !.pc = IF loop.stopRequested THEN "leave1" ELSE "swap"]
    /\ UNCHANGED <<ringVars, rpcVars, codec, loop, ext, trace>>

\* batch.swap(m_postQueue), under m_postMutex
RunSwap ==
    /\ run.pc = "swap"
    /\ run' = [run EXCEPT !.pc = "batch", !.batch = loop.postQueue]
    /\ loop' = [loop EXCEPT !.postQueue = << >>]
    /\ UNCHANGED <<ringVars, rpcVars, codec, ext, trace>>

\* for (auto& fn : batch) fn(): the callable starts; one that calls stop()
\* goes on to do so
RunFnStart ==
    /\ run.pc = "batch"
    /\ run.batch # << >>
    /\ run' = [run EXCEPT !.pc = IF Head(run.batch) \in loop.stoppers
                                  THEN "stop1" ELSE "fnend",
                          !.back = "fnend"]
    /\ trace' = [trace EXCEPT !.started = Append(@, Head(run.batch)),
                              !.due = IF Head(run.batch) \in loop.stoppers
                                      THEN @ \cup {run.n} ELSE @]
    /\ UNCHANGED <<ringVars, rpcVars, codec, loop, ext>>

\* stop() on the thread of run(), from a callable or from the fd callback:
\* m_stopRequested.store(true)
RunStopStore ==
    /\ run.pc = "stop1"
    /\ loop' = [loop EXCEPT !.stopRequested = TRUE]
    /\ run' = [run EXCEPT !.pc = "stop2"]
    /\ UNCHANGED <<ringVars, rpcVars, codec, ext, trace>>

\* stop() on the thread of run(): wakeup()
RunStopWake ==
    /\ run.pc = "stop2"
    /\ loop' = [loop EXCEPT !.pipe = Wakeup(@)]
    /\ run' = [run EXCEPT !.pc = run.back]
    /\ UNCHANGED <<ringVars, rpcVars, codec, ext, trace>>

\* the callable returns
RunFnEnd ==
    /\ run.pc = "fnend"
    /\ run' = [run EXCEPT !.pc = "batch", !.batch = Tail(@)]
    /\ trace' = [trace EXCEPT !.finished = Append(@, Head(run.batch))]
    /\ UNCHANGED <<ringVars, rpcVars, codec, loop, ext>>

\* the batch is done; epoll_wait(m_epollFd, events, MAX_EVENTS, -1) returns
\* once the wakeup pipe or the registered fd is readable
RunWait ==
    /\ run.pc = "batch"
    /\ run.batch = << >>
    /\ ReadyEvents # {}
    /\ run' = [run EXCEPT !.pc = "events", !.events = ReadyEvents,
                          !.late = trace.removed]
    /\ UNCHANGED <<ringVars, rpcVars, codec, loop, ext, trace>>

\* the wakeup event: while (read(m_wakeupFd[0], buf, sizeof(buf)) > 0) {}
RunDrainPipe ==
    /\ run.pc = "events"
    /\ "wakeup" \in run.events
    /\ loop' = [loop EXCEPT !.pipe = 0]
    /\ run' = [run EXCEPT !.events = @ \ {"wakeup"}]
    /\ UNCHANGED <<ringVars, rpcVars, codec, ext, trace>>

\* the event of the registered fd: under m_fdMutex the callback of the fd is
\* copied out of m_fdEntries, if the fd is still in it
RunFdLookup ==
    /\ run.pc = "events"
    /\ "fd" \in run.events
    /\ loop.fdMutex = "free"
    /\ loop' = [loop EXCEPT !.fdMutex = Unlock("run")]
    /\ run' = [run EXCEPT !.events = @ \ {"fd"}, !.cb = loop.fdEntry,
                          !.pc = IF loop.fdEntry THEN "cb" ELSE "events"]
    /\ UNCHANGED <<ringVars, rpcVars, codec, ext, trace>>

\* if (cb) cb(fd, events): the callback reads the byte and, if it is the
\* stopping one, calls stop(), if it is the removing one, removeFd(fd)
RunFdCallback ==
    /\ run.pc = "cb"
    /\ loop' = [loop EXCEPT !.fdReady = IF @ > 0 THEN @ - 1 ELSE @]
    /\ run' = [run EXCEPT !.cb = FALSE,
                          !.pc = IF loop.cbStops THEN "stop1"
                                 ELSE IF loop.cbRemoves THEN "rm1"
                                 ELSE "events",
                          !.back = "events"]
    /\ trace' = [trace EXCEPT !.fired = @ + 1,
                              !.due = IF loop.cbStops THEN @ \cup {run.n} ELSE @]
    /\ UNCHANGED <<ringVars, rpcVars, codec, ext>>

\* removeFd(fd) from the callback: epoll_ctl(m_epollFd, EPOLL_CTL_DEL, fd)
RunRemoveDel ==
    /\ run.pc = "rm1"
    /\ loop' = [loop EXCEPT !.inEpoll = FALSE]
    /\ run' = [run EXCEPT !.pc = "rm2"]
    /\ UNCHANGED <<ringVars, rpcVars, codec, ext, trace>>

\* the outcome of removeFd's search of m_fdEntries: 0, or -1 if the fd is
\* not in it
RemoveResult(lp) == IF lp.fdEntry THEN 0 ELSE -1

\* removeFd(fd) from the callback: under m_fdMutex the entry is erased;
\* return 0, or -1 if there is none
RunRemoveErase ==
    /\ run.pc = "rm2"
    /\ loop.fdMutex = "free"
    /\ loop' = [loop EXCEPT !.fdEntry = FALSE]
    /\ run' = [run EXCEPT !.pc = run.back]
    /\ trace' = [trace EXCEPT !.rets = Append(@, RemoveResult(loop)),
                              !.removed = @ \/ loop.fdEntry]
    /\ UNCHANGED <<ringVars, rpcVars, codec, ext>>

\* removeFd(fd) on thread t: epoll_ctl(m_epollFd, EPOLL_CTL_DEL, fd)
ExtRemoveDel(t) ==
    /\ ext[t].pc = "idle"
    /\ loop.scenario = "remove"
    /\ trace.removes < MaxRemoves
    /\ loop' = [loop EXCEPT !.inEpoll = FALSE]
    /\ ext' = [ext EXCEPT ![t] = [pc |-> "erase"]]
    /\ trace' = [trace EXCEPT !.removes = @ + 1]
    /\ UNCHANGED <<ringVars, rpcVars, codec, run>>

\* removeFd(fd) on thread t: under m_fdMutex the entry is erased; return 0,
\* or -1 if there is none
ExtRemoveErase(t) ==
    /\ ext[t].pc = "erase"
    /\ loop.fdMutex = "free"
    /\ loop' = [loop EXCEPT !.fdEntry = FALSE]
    /\ ext' = [ext EXCEPT ![t] = ExtIdle]
    /\ trace' = [trace EXCEPT !.rets = Append(@, RemoveResult(loop)),
                              !.removed = @ \/ loop.fdEntry]
    /\ UNCHANGED <<ringVars, rpcVars, codec, run>>

\* all events handled: back to the loop condition
RunAgain ==
    /\ run.pc = "events"
    /\ run.events = {}
    /\ run' = [run EXCEPT !.pc = "check"]
    /\ UNCHANGED <<ringVars, rpcVars, codec, loop, ext, trace>>

\* after the loop: m_running.store(false)
RunLeave1 ==
    /\ run.pc = "leave1"
    /\ loop' = [loop EXCEPT !.running = FALSE]
    /\ run' = [run EXCEPT !.pc = "leave2"]
    /\ UNCHANGED <<ringVars, rpcVars, codec, ext, trace>>

\* a run() that leaves m_stopRequested as it is
MutRearmed(lp) == lp

\* m_stopRequested.store(false): the loop can be run again
Rearmed(lp) == [lp EXCEPT !.stopRequested = FALSE]

\* m_stopRequested.store(false); run() returns
RunLeave2 ==
    /\ run.pc = "leave2"
    /\ loop' = Rearmed(loop)
    /\ run' = [run EXCEPT !.pc = "out"]
    /\ UNCHANGED <<ringVars, rpcVars, codec, ext, trace>>

\* runOnThread(fn) / post(fn) on thread t: push_back under m_postMutex; the
\* callables are numbered in the order of the pushes
PostPush(t) ==
    /\ ext[t].pc = "idle"
    /\ trace.posts < PostBudget
    /\ LET fn == trace.posts + 1
       IN  /\ loop' = [loop EXCEPT !.postQueue = Enqueue(@, fn)]
           /\ trace' = [trace EXCEPT !.posts = fn, !.by = Append(@, t)]
           /\ ext' = [ext EXCEPT ![t] = [pc |-> "postwake", fn |-> fn]]
    /\ UNCHANGED <<ringVars, rpcVars, codec, run>>

\* runOnThread(fn) / post(fn) on thread t: wakeup(), and the call returns
PostWake(t) ==
    /\ ext[t].pc = "postwake"
    /\ loop' = [loop EXCEPT !.pipe = Wakeup(@)]
    /\ trace' = [trace EXCEPT !.completed = Append(@, ext[t].fn)]
    /\ ext' = [ext EXCEPT ![t] = ExtIdle]
    /\ UNCHANGED <<ringVars, rpcVars, codec, run>>

\* stop() on thread t: m_stopRequested.store(true).  The call is recorded
\* against the run() a thread is inside of, or, with isRunning() false,
\* against the next run()
LoopStopStore(t) ==
    /\ ext[t].pc = "idle"
    /\ trace.stops < StopBudget
    /\ loop' = [loop EXCEPT !.stopRequested = TRUE]
    /\ trace' = [trace EXCEPT !.stops = @ + 1,
                              !.due = IF run.pc # "out" THEN @ \cup {run.n} ELSE @,
                              !.owed = IF ~loop.running THEN @ \cup {run.n + 1} ELSE @]
    /\ ext' = [ext EXCEPT ![t] = [pc |-> "stopwake"]]
    /\ UNCHANGED <<ringVars, rpcVars, codec, run>>

\* stop() on thread t: wakeup(), and the call returns
LoopStopWake(t) ==
    /\ ext[t].pc = "stopwake"
    /\ loop' = [loop EXCEPT !.pipe = Wakeup(@)]
    /\ ext' = [ext EXCEPT ![t] = ExtIdle]
    /\ UNCHANGED <<ringVars, rpcVars, codec, run, trace>>

\* a byte is written to the peer end of the registered fd
FdSend ==
    /\ trace.sent < FdBudget
    /\ loop' = [loop EXCEPT !.fdReady = @ + 1]
    /\ trace' = [trace EXCEPT !.sent = @ + 1]
    /\ UNCHANGED <<ringVars, rpcVars, codec, run, ext>>

\* the steps of the thread inside run()
RunStep ==
    \/ RunCheck
    \/ RunSwap
    \/ RunFnStart
    \/ RunStopStore
    \/ RunStopWake
    \/ RunFnEnd
    \/ RunWait
    \/ RunDrainPipe
    \/ RunFdLookup
    \/ RunFdCallback
    \/ RunAgain
    \/ RunLeave1
    \/ RunLeave2

NextLoop ==
    \/ RunBegin
    \/ RunStep
    \/ \E t \in Posters : PostPush(t)
    \/ \E t \in Posters : PostWake(t)
    \/ \E t \in Posters : LoopStopStore(t)
    \/ \E t \in Posters : LoopStopWake(t)
    \/ FdSend

\* scenario "remove": removeFd is called by the other threads, or by the
\* callback of the fd
InitRemoving ==
    /\ RingUnused
    /\ RpcUnused
    /\ codec = << >>
    /\ \E stoppers \in SUBSET {1}, cbRemoves \in BOOLEAN :
          loop = [LoopIdle("remove", stoppers, FALSE) EXCEPT
                     !.cbRemoves = cbRemoves]
    /\ run = RunOut
    /\ ext = [t \in Posters |-> ExtIdle]
    /\ trace = NoTrace

NextRemoving ==
    \/ NextLoop
    \/ RunRemoveDel
    \/ RunRemoveErase
    \/ \E t \in Posters : ExtRemoveDel(t)
    \/ \E t \in Posters : ExtRemoveErase(t)

SpecRemoving == InitRemoving /\ [][NextRemoving]_vars

SpecStopping == InitStopping /\ [][NextLoop]_vars
SpecPosting == InitPosting /\ [][NextLoop]_vars

\* a thread that is inside run(), post() or stop() goes on running
LoopFairStep ==
    \/ RunStep
    \/ \E t \in Posters : PostWake(t)
    \/ \E t \in Posters : LoopStopWake(t)

SpecStoppingFair == SpecStopping /\ WF_vars(LoopFairStep)

\* run() number k has returned
RunReturned(k) == run.n > k \/ (run.n = k /\ run.pc = "out")

\* isRunning() is false whenever no thread is inside run()
NotRunningOutside == run.pc = "out" => ~loop.running

\* C28: whenever stop() is called while a thread is inside run(), from
\* another thread, from a posted callable or from the fd callback, that run()
\* eventually returns; and isRunning() is false once run() has returned
DeterministicShutdown ==
    /\ \A k \in 1..MaxRuns : (k \in trace.due) ~> RunReturned(k)
    /\ [](run.pc = "out" => ~loop.running)

\* run() has returned after a stop() from a callable, and run() has returned
\* after a stop() from another thread or from the fd callback
DeterministicShutdownWitness ==
    /\ trace.due = 1..MaxRuns
    /\ RunReturned(MaxRuns)
    /\ ~loop.running
    /\ trace.started # << >>
    /\ loop.stoppers # {}
    /\ loop.cbStops

\* the thread inside run() is in epoll_wait, nothing is readable and no
\* call of stop() or post() is under way that would wake it: it blocks in
\* the event wait
Blocked ==
    /\ run.pc = "batch" /\ run.batch = << >> /\ ReadyEvents = {}
    /\ \A t \in Posters : ext[t].pc = "idle"

\* C29: a run() that follows a stop() called while isRunning() was false
\* returns without blocking in the event wait
StopBeforeRun == \A k \in trace.owed : ~(run.n = k /\ Blocked)

\* the same for a stop() called before the first run() only
StopBeforeFirstRun == 1 \in trace.owed => ~(run.n = 1 /\ Blocked)

\* a run() that started with stop() already requested has returned
StopBeforeFirstRunReturned ==
    /\ 1 \in trace.owed
    /\ RunReturned(1)
    /\ trace.due = {}

\* the position of callable fn in sequence q (0: not in it)
PlaceIn(q, fn) ==
    IF \E i \in 1..Len(q) : q[i] = fn
    THEN CHOOSE i \in 1..Len(q) : q[i] = fn
    ELSE 0

\* callable a was started before callable b
StartedBefore(a, b) ==
    /\ PlaceIn(trace.started, a) > 0
    /\ PlaceIn(trace.started, b) > 0
    /\ PlaceIn(trace.started, a) < PlaceIn(trace.started, b)

\* the callables 1, 2, .. n in this order
Upto(n) == [i \in 1..n |-> i]

\* C30: callables are executed in the order of their push_back under
\* m_postQueue's mutex (they are numbered in that order), one after the
\* other: each starts only after every callable pushed before it has
\* finished; so a callable whose posting call returned before another's
\* began, and the earlier of two callables posted by one thread, starts and
\* finishes first
PostFifo ==
    /\ trace.started = Upto(Len(trace.started))
    /\ trace.finished = Upto(Len(trace.finished))
    /\ Len(trace.started) - Len(trace.finished) \in {0, 1}
    /\ \A a, b \in Callables :
          (/\ a < b /\ b <= trace.posts /\ trace.by[a] = trace.by[b]
           /\ PlaceIn(trace.started, b) > 0) =>
              /\ StartedBefore(a, b)
              /\ PlaceIn(trace.finished, a) > 0

\* three callables posted by two threads, the posting calls of the first two
\* overlapping, have all been executed
PostFifoWitness ==
    /\ trace.finished = Upto(MaxPosts)
    /\ trace.by = <<1, 2, 1>>
    /\ trace.completed = <<2, 1, 3>>

\* the statement with the order in which the posting calls completed: of
\* two callables that were both started, the one whose posting call
\* returned first was started first
CompletionOrder ==
    \A i, j \in 1..Len(trace.completed) :
        (/\ i < j
         /\ PlaceIn(trace.started, trace.completed[i]) > 0
         /\ PlaceIn(trace.started, trace.completed[j]) > 0) =>
            StartedBefore(trace.completed[i], trace.completed[j])

\* the posting scenario in which only the callable posted last may call stop()
InitDelivering ==
    /\ InitPosting
    /\ loop.stoppers \subseteq {MaxPosts}

SpecDelivering == InitDelivering /\ [][NextLoop]_vars /\ WF_vars(LoopFairStep)

\* stop() has been called, by another thread, a callable or the fd callback
StopCalled == trace.stops > 0 \/ trace.due # {} \/ trace.owed # {}

\* callable fn has been executed
Executed(fn) == PlaceIn(trace.finished, fn) > 0

\* no callable is started twice
StartedOnce ==
    \A i, j \in 1..Len(trace.started) :
        trace.started[i] = trace.started[j] => i = j

\* C31: while a thread is inside run() and stop() is not called, every
\* callable that has been posted is eventually executed by that thread, and
\* no callable is executed twice
RunLoopDelivery ==
    /\ \A fn \in Callables :
          (trace.posts >= fn /\ run.pc # "out") ~> (Executed(fn) \/ StopCalled)
    /\ []StartedOnce

\* all callables, posted by both threads, have been executed during one
\* run() with no stop() called
RunLoopDeliveryWitness ==
    /\ trace.finished = Upto(MaxPosts)
    /\ ~StopCalled
    /\ run.n = 1
    /\ \E i, j \in 1..MaxPosts : trace.by[i] # trace.by[j]

\* stop() has been called for run() number k: during it, or before it while
\* isRunning() was false
StopCalledFor(k) == k \in trace.due \/ k \in trace.owed

\* run() number k is leaving its loop or has returned
RunLeft(k) ==
    run.n > k \/ (run.n = k /\ run.pc \in {"leave1", "leave2", "out"})

\* a run() that follows a run() ended by stop() leaves its loop only when
\* stop() is called again
RestartBlocks ==
    \A k \in 2..MaxRuns : (run.n >= k /\ RunLeft(k)) => StopCalledFor(k)

\* C32: after run() has returned because of stop(), a later run() does not
\* return because of that earlier stop: it leaves its loop only when stop() is
\* called again, and until then every callable posted is eventually executed
RunLoopRestart ==
    /\ []RestartBlocks
    /\ \A fn \in Callables :
          (trace.posts >= fn /\ run.n = 2 /\ run.pc # "out")
              ~> (Executed(fn) \/ StopCalledFor(2))

\* the second run(), after the first was ended by stop(), is executing a
\* callable and no further stop() has been called
RunLoopRestartWitness ==
    /\ run.n = 2
    /\ run.pc = "fnend"
    /\ trace.due = {1}
    /\ trace.owed = {}

\* C33: when a posted callable that calls stop() is invoked, every callable
\* pushed before it has finished executing, hence has finished before the
\* run() that this stop() ends returns
StopFromCallable ==
    \A s \in loop.stoppers :
        PlaceIn(trace.started, s) > 0 =>
            \A fn \in 1..(s - 1) : Executed(fn)

\* run() has returned after the callable posted last called stop(), no other
\* stop() was called, and the callables posted before it have been executed
StopFromCallableWitness ==
    /\ loop.stoppers = {MaxPosts}
    /\ Executed(MaxPosts)
    /\ RunReturned(1)
    /\ trace.stops = 0
    /\ trace.due = {1}
    /\ \E i, j \in 1..MaxPosts : trace.by[i] # trace.by[j]

\* the callback of the fd is invoked in this step
CallbackInvoked == trace'.fired = trace.fired + 1

\* no invocation of the callback for an event that epoll_wait reported after
\* removeFd had returned 0
NoLateCallback == [][CallbackInvoked => ~run.late]_vars

\* the thread of run() is not waiting in removeFd for m_fdMutex while the
\* lookup of its own dispatch holds it
NoSelfDeadlock == ~(run.pc = "rm2" /\ loop.fdMutex = "run")

\* removeFd returns 0 for the registered fd and -1 once it is not registered
RemoveReturns ==
    \A i \in 1..Len(trace.rets) : trace.rets[i] = IF i = 1 THEN 0 ELSE -1

\* C34: once removeFd(fd) has returned 0, epoll_wait reports no event for fd
\* and the callback is not invoked for any readiness reported from then on,
\* whichever thread called removeFd; removeFd from inside the callback of
\* the fd does not wait for a mutex its own thread holds; removeFd returns
\* -1 when the fd is not registered
RemoveFdStopsCallbacks ==
    /\ NoLateCallback
    /\ [](trace.removed => ~loop.inEpoll /\ ~loop.fdEntry)
    /\ []NoSelfDeadlock
    /\ []RemoveReturns

\* removeFd returned 0, from the callback or from another thread, and -1 on
\* the next call; a byte that reached the fd afterwards is still unread
\* while the thread of run() waits again, the callback having run once
RemoveFdStopsCallbacksWitness ==
    /\ trace.rets = <<0, -1>>
    /\ trace.sent = MaxFdBytes + 1
    /\ trace.fired = 1
    /\ loop.fdReady > 0
    /\ run.pc = "batch" /\ run.batch = << >> /\ run.late
    /\ loop.cbRemoves

\* a stricter statement, which does not hold when removeFd is called from
\* another thread: no invocation of the callback at all once removeFd has
\* returned 0.  A dispatch that copied the callback out of m_fdEntries before
\* the entry was erased still invokes it, for the readiness reported earlier
NoCallbackAfterRemove == [][CallbackInvoked => ~trace.removed]_vars

(***************************************************************************)
(* The ring across the wrap of its counters, checked under SpecRing        *)
(***************************************************************************)
\* head has wrapped past 2^32 and tail has not (the ring started with both
\* at 0xFFFFFFFE)
HeadWrapped == ring.head >= 0 /\ ring.tail < 0

\* the readable bytes by counters that never wrap: bytes written so far
\* minus bytes consumed so far
Occupied == Len(written) - Len(got)

\* the index into the data array of byte number n since the start at
\* 0xFFFFFFFE, by a counter that never wraps (2^32 is a multiple of the size)
IndexOf(n) == (RSize - 2 + n) % RSize

\* C35: when head has wrapped past 2^32 and tail has not, readAvailable,
\* writeAvailable, the space check, the data check and the masked indexes
\* of head and tail are what counters that never wrap give, and the bytes
\* consumed are, in order, the bytes written
CounterWrapSafety ==
    HeadWrapped =>
        /\ readAvailable(ring) = Occupied
        /\ writeAvailable(RSize, ring) = RSize - Occupied
        /\ \A len \in 0..(RSize + 1) :
              /\ WriteFits(RSize, ring.head, ring.tail, len) <=> (len <= RSize - Occupied)
              /\ ReadFits(ring.head, ring.tail, len) <=> (len <= Occupied)
        /\ Mask(RSize, ring.head) = IndexOf(Len(written))
        /\ Mask(RSize, ring.tail) = IndexOf(Len(got))
        /\ Len(got) <= Len(written)
        /\ \A i \in 1..Len(got) : got[i] # -1 => got[i] = written[i]

\* head has wrapped, tail has not, and a byte of a write that crossed the
\* wrap of the counter has been read back
CounterWrapSafetyWitness ==
    /\ HeadWrapped
    /\ ring.tail = -1
    /\ cons.pc = "idle" /\ cons.ok /\ cons.op = "read"
    /\ got # << >> /\ got[1] # -1
    /\ Len(written) >= 3

\* the consumer takes a step of the operation op
ConsumerStep(op) == cons.pc # "idle" /\ cons.op = op /\ cons' # cons

\* the consumer's operation returns in this step
ConsumerReturns == cons.pc # "idle" /\ cons'.pc = "idle"

\* the consumer runs its data check while fewer than len bytes are readable
LacksData ==
    /\ cons.pc = "loadTail"
    /\ cons' # cons
    /\ ULt(ring.head - ring.tail, cons.len)

\* C36: no step of peek changes head, tail or the data; a peek that returns
\* true returns the bytes at tail, and a read of the same length that
\* follows it immediately returns the same bytes; peek, read and skip with
\* len greater than the readable bytes return false and change nothing
PeekLeavesRing ==
    [][/\ ConsumerStep("peek") => ring' = ring /\ got' = got
       /\ (ConsumerStep("peek") /\ ConsumerReturns /\ cons'.ok) =>
             cons'.dest = ReadData(RSize, ring.data, ring.tail, cons.len)
       /\ (ConsumerStep("read") /\ ConsumerReturns /\ cons'.ok
             /\ Len(cons.peeked) = cons.len) =>
             cons'.dest = cons.peeked
       /\ LacksData =>
             /\ cons'.pc = "idle" /\ ~cons'.ok
             /\ ring' = ring /\ got' = got]_vars

\* a read has returned the bytes that the peek of the same length before it
\* returned
PeekLeavesRingWitness ==
    /\ cons.pc = "idle" /\ cons.op = "read" /\ cons.ok
    /\ cons.len >= 2
    /\ cons.peeked = cons.dest
    /\ \E i \in 1..cons.len : cons.dest[i] # 0

\* C37: whenever the client's receiver takes the RESPONSE frame for the seq
\* of a call that has not returned (so has not timed out), the entry for
\* that seq is in the pending table
PendingPrecedesResponse ==
    [][LET f == TakeFrame(s2c[CallClient])
       IN  (/\ rcv[CallClient] = "drain"
            /\ TakesFrame
            /\ f.kind = "frame"
            /\ HasFlag(f.header.flags, FRAME_RESPONSE)) =>
               \A t \in Callers :
                   (call[t].seq = f.header.seq /\ call[t].pc # "idle") =>
                       f.header.seq \in mpending[CallClient]]_vars

\* the worker of client c has dispatched a request and not yet finished
\* answering it
Answering(c) == wrk[c].pc \in {"handler", "rh1", "rh2", "rp1", "rp2", "signal"}

\* the worker of client c goes back to its drain loop after a request
AnswerEnds(c) == Answering(c) /\ wrk'[c].pc = "drain"

\* C38: one response per request: the worker leaves a dispatched request
\* only by sending the signal byte, after it has written one complete
\* RESPONSE frame with the request's seq into serverToClient
OneResponsePerRequest ==
    [][\A c \in Clients :
          AnswerEnds(c) =>
              /\ wrk[c].pc = "signal"
              /\ LET f == LastFrame(s2c[c], Len(wrk[c].response))
                 IN  /\ f.kind = "frame"
                     /\ f.header = ResponseHeader(wrk[c].hdr, wrk[c].status,
                                                  wrk[c].response)
                     /\ f.payload = wrk[c].response
              /\ sock'[c].toCli = Append(sock[c].toCli, 1)]_vars

\* connect() on client c has returned true and nothing has ended the
\* connection since: no disconnect() on the client, no stop() of the service
ConnectedTrue(c) ==
    /\ con[c].pc = "done" /\ con[c].ret
    /\ cli[c].running
    /\ dsc[c].pc = "idle"
    /\ stp.pc = "idle" /\ srv.running

\* the service has published a Connection for client c, with the region
\* mapped and its worker thread started
Published(c) ==
    /\ \E i \in 1..Len(conns) : conns[i] = c
    /\ conn[c] = OpenConn
    /\ wrk[c].pc # "off"

\* the accept loop is between its acknowledgement to client c and the
\* push_back of the Connection
Publishing(c) == acc.peer = c /\ acc.pc \in {"mmap", "publish"}

\* C39: handshake agreement: whenever connect() has returned true, the
\* service has published a Connection for the client, mapped and with a
\* worker running, or is about to
HandshakeAgreement ==
    \A c \in Clients : ConnectedTrue(c) => (Published(c) \/ Publishing(c))

\* caller t takes a step of Client::call that reads or writes the rings of
\* the shared region
CallUsesRegion(t) ==
    /\ call[t].pc \in {"hdr1", "hdr2", "pay1", "pay2"}
    /\ call'[t] # call[t]

\* caller t takes the step of Client::call that sends the signal byte on
\* m_socketFd
CallUsesSocket(t) == call[t].pc = "signal" /\ call'[t] # call[t]

\* the receiver of client c takes a step that reads the socket or the ring
ReceiverUses(c) == rcv[c] \in {"recv", "drain"} /\ rcv'[c] # rcv[c]

\* C40: no use of the region after teardown: no thread in Client::call reads
\* or writes the shared region after disconnect() has unmapped it or sends
\* on the control socket after disconnect() has closed it, and the receiver
\* takes no step on either of them after the release
NoUseAfterTeardown ==
    [][/\ \A t \in Callers :
            /\ CallUsesRegion(t) => cli[CallClient].region
            /\ CallUsesSocket(t) => cli[CallClient].socketFd
       /\ ReceiverUses(CallClient) =>
            cli[CallClient].region /\ cli[CallClient].socketFd]_vars

=============================================================================
